---- MODULE Spec2Model ----
(***************************************************************************)
(* AI Bounty Board: the bounty lifecycle engine of src/server.js.          *)
(*                                                                         *)
(* Every HTTP handler is an async function: it runs synchronously up to    *)
(* each await and other handlers interleave at the awaits.  A request in   *)
(* flight is a record in req[s]; its pc names the await it is parked at.   *)
(* With SUPABASE_KEY set the bounties live in the remote table and a       *)
(* handler works on a copy (snap) that it writes back whole; without it    *)
(* the bounties live in bountiesMemory and a handler works on the live     *)
(* object.                                                                 *)
(***************************************************************************)
EXTENDS Integers, Sequences, FiniteSets, TLC

\* ---------------------------------------------------------------- bounds
MaxBounties == 1
MaxReqs == 4
MaxSlots == 2
MaxTicks == 2
MaxRacers == 3
MaxChecks == 5
MaxRequirements == 40
MaxArrivals == 2
MaxCalls == 3

\* ------------------------------------------------------ program constants
RATE_LIMIT_WINDOW_MS == 60000
RATE_LIMIT_MAX_CLAIMS == 3
RATE_LIMIT_MAX_SUBMISSIONS == 5
RATE_LIMIT_MAX_CREATES == 2
MAX_PENDING_CLAIMS == 3
MIN_WORK_TIME_MS == 600000
MAX_SUBMISSION_LENGTH == 5000
FEE_PERCENT == 5

Null == "null"
NoTime == -1

\* ------------------------------------------------------------ identities
\* Wallet addresses as the clients send them; "A" and "a" are one wallet in
\* two spellings (checksummed and lowercase), likewise "C" and "c".
MOD_WALLETS == {"m"}

toLowerCase(address) ==
    CASE address = "A" -> "a"
      [] address = "C" -> "c"
      [] address = "M" -> "m"
      [] address = "T" -> "t"
      [] address = "X" -> "x"
      [] OTHER -> address

isMod(address) == address # Null /\ toLowerCase(address) \in MOD_WALLETS

\* ethers.isAddress: every wallet of the model is a well-formed address;
\* the values that are not are null and the non-hex name "bob".
isAddress(address) == address \notin {Null, "bob"}

\* The blocklist record of the remote table (administered elsewhere).
blocklistWallets == {"X"}

\* --------------------------------------------------------------- helpers
Min(S) == CHOOSE x \in S : \A y \in S : x <= y
Last(q) == q[Len(q)]
\* Math.ceil(x / d) for d > 0
Ceil(x, d) == -((-x) \div d)
\* ------------------------------------------------- Number (IEEE binary64)
\* A positive Number, as the division and the product of autograde meet
\* it: [hi, mid, lo, frac] stands for (hi * Limb^2 + mid * Limb + lo) *
\* 2^(-frac), a significand of SignificandBits binary digits whose first
\* digit is a 1 (so TopLow <= hi < 2 * TopLow).  Each operation rounds its
\* exact result to the nearest such number, a tie to the even significand.
SignificandBits == 53
LimbBits == 24
Limb == 2 ^ LimbBits
TopLow == 2 ^ (SignificandBits - 2 * LimbBits - 1)

\* The least k with m * 2^k >= n, for 0 < m.
RECURSIVE normShift(_, _)
normShift(m, n) == IF m >= n THEN 0 ELSE 1 + normShift(2 * m, n)

\* The next Number above x.
successor(x) ==
    IF x.lo + 1 < Limb THEN [x EXCEPT !.lo = @ + 1]
    ELSE IF x.mid + 1 < Limb THEN [x EXCEPT !.lo = 0, !.mid = @ + 1]
    ELSE IF x.hi + 1 < 2 * TopLow
    THEN [x EXCEPT !.lo = 0, !.mid = 0, !.hi = @ + 1]
    ELSE [hi |-> TopLow, mid |-> 0, lo |-> 0, frac |-> x.frac - 1]

\* m / n for naturals 0 < m <= n < 2^31 / Limb: long division, limb by limb.
numberDivide(m, n) ==
    LET k == normShift(m, n)
        r0 == TopLow * m * (2 ^ k)
        r1 == (r0 % n) * Limb
        r2 == (r1 % n) * Limb
        r3 == 2 * (r2 % n)
        down == [hi |-> r0 \div n, mid |-> r1 \div n, lo |-> r2 \div n,
                 frac |-> SignificandBits - 1 + k]
    IN IF r3 > n \/ (r3 = n /\ down.lo % 2 = 1) THEN successor(down) ELSE down

\* x * c for a Number x and a natural 0 < c < 2^31 / Limb.
numberTimes(x, c) ==
    LET t0 == x.lo * c
        t1 == x.mid * c + t0 \div Limb
        t2 == x.hi * c + t1 \div Limb
        sh == CHOOSE i \in 0..LimbBits :
                 TopLow <= t2 \div (2 ^ i) /\ t2 \div (2 ^ i) < 2 * TopLow
        cut == 2 ^ sh
        down == [hi |-> t2 \div cut,
                 mid |-> (t2 % cut) * (Limb \div cut) + (t1 % Limb) \div cut,
                 lo |-> (t1 % cut) * (Limb \div cut) + (t0 % Limb) \div cut,
                 frac |-> x.frac - sh]
        dropped == 2 * (t0 % cut)
    IN IF dropped > cut \/ (dropped = cut /\ down.lo % 2 = 1)
       THEN successor(down) ELSE down

\* Math.round(x) for a Number x < 128: its whole part, and one more when
\* the first digit behind the binary point is a 1.
MathRound(x) ==
    LET whole == SignificandBits - x.frac
        top == x.hi * 8 + x.mid \div (Limb \div 8)
    IN IF whole < 0 THEN 0
       ELSE (top \div (2 ^ (8 - whole))) + ((top \div (2 ^ (7 - whole))) % 2)

\* Math.round((m / n) * 100) for 0 <= m <= n, n > 0
Round100(m, n) ==
    IF m = 0 THEN 0 ELSE MathRound(numberTimes(numberDivide(m, n), 100))

RemoveAt(q, i) == [j \in 1..(Len(q) - 1) |-> IF j < i THEN q[j] ELSE q[j + 1]]

VARIABLES
    SUPABASE_KEY,   \* TRUE iff the remote store is configured
    WALLET_PK,      \* TRUE iff the payment key is configured
    bounties,       \* id -> bounty document (remote rows, or memory objects)
    memUndefined,   \* the bounties (at most one) under bountiesMemory key "undefined"
    rateLimits,     \* <<address, action>> -> [count, windowStart]
    now,            \* Date.now()
    ticks,          \* how often the clock advanced
    req,            \* slot -> request in flight
    nreq,           \* requests started
    nsub,           \* submission ids handed out (uuidv4)
    transfers,      \* recipients of the USDC transfers that were confirmed
    answers,        \* the most recent responses, oldest first
    keep,           \* how many responses the observer keeps
    agents,         \* address -> registered agent and its counters
    store,          \* createStore: its maps, _readyPromise and the gated requests
    pmap,           \* one PersistentMap: its _cache, the remote rows, the fetches in flight
    bountiesMemory, \* with SUPABASE_KEY: id -> the copy saveBounty left in bountiesMemory
    agentRows       \* the rows of the agents collection in the remote mechanism_store

vars == <<SUPABASE_KEY, WALLET_PK, bounties, memUndefined, rateLimits, now,
          ticks, req, nreq, nsub, transfers, answers, keep, agents, store, pmap,
          bountiesMemory, agentRows>>

\* createStore(mechanism): no map yet, _readyPromise null, no middleware
\* installed, no request waiting, no handler run.
NewStore == [maps |-> << >>, readyPromise |-> << >>, gate |-> << >>,
             waiting |-> 0, arrived |-> 0, handled |-> {}]

\* new PersistentMap(mechanism, collection): an empty _cache; the rows of
\* the collection in mechanism_store are empty too, no fetch is in flight,
\* no call was made, no remote write failed, nothing was logged or thrown.
NewMap == [cache |-> << >>, rows |-> << >>, fetches |-> {}, issued |-> 0,
           failures |-> 0, logged |-> 0, thrown |-> 0,
           last |-> [op |-> "new", key |-> Null, result |-> Null]]

Slots == 1..MaxSlots
MissingId == MaxBounties + 1

NoDoc == [status |-> "absent"]

Idle == [kind |-> "idle", pc |-> "done", addr |-> Null, bid |-> MissingId,
         arg |-> <<>>, snap |-> NoDoc]

\* ------------------------------------------------------- rate limiter
limits(action) ==
    CASE action = "claim" -> RATE_LIMIT_MAX_CLAIMS
      [] action = "submit" -> RATE_LIMIT_MAX_SUBMISSIONS
      [] action = "create" -> RATE_LIMIT_MAX_CREATES
      [] OTHER -> RATE_LIMIT_MAX_CLAIMS

rateKey(address, action) == <<toLowerCase(address), action>>

\* The window taken as over from the instant its width is reached.
windowExpired_atBoundary(entry, t) == (t - entry.windowStart) >= RATE_LIMIT_WINDOW_MS

windowExpired(entry, t) == (t - entry.windowStart) > RATE_LIMIT_WINDOW_MS

\* checkRateLimit(address, action) at time t on table rl: the answer and the
\* table it leaves.
checkRateLimit(rl, t, address, action) ==
    LET key == rateKey(address, action)
        entry == IF key \notin DOMAIN rl \/ windowExpired(rl[key], t)
                 THEN [count |-> 0, windowStart |-> t]
                 ELSE rl[key]
    IN IF entry.count >= limits(action)
       THEN [allowed |-> FALSE,
             retryAfter |-> Ceil(entry.windowStart + RATE_LIMIT_WINDOW_MS - t, 1000),
             table |-> rl]
       ELSE [allowed |-> TRUE,
             retryAfter |-> 0,
             table |-> [k \in DOMAIN rl \cup {key} |->
                          IF k = key
                          THEN [count |-> entry.count + 1,
                                windowStart |-> entry.windowStart]
                          ELSE rl[k]]]

\* ------------------------------------------------------- request plumbing
Free(s) == req[s].pc = "done"

\* A mutation of microtask: every await of the store yields to the event
\* loop, as it does with the remote store.
microtask_yields(r) == FALSE

\* Without SUPABASE_KEY supabaseRequest returns null at once: an await of the
\* store resumes from the microtask queue, before the event loop serves any
\* other request.  Only the awaits of the payment reach the network then.
microtask(r) ==
    ~SUPABASE_KEY /\ r.pc \in {"scan", "get", "reread", "read", "write"}

Resuming == \E t \in DOMAIN req : microtask(req[t])

\* The event loop hands over a request's continuation that waited on I/O.
Wakes(s) == ~microtask(req[s]) => ~Resuming

\* A new request takes the lowest free slot.
CanStart(s) ==
    /\ nreq < MaxReqs
    /\ ~Resuming
    /\ Free(s)
    /\ \A t \in DOMAIN req : Free(t) => s <= t

Begin(s, kind, addr, bid, arg, pc) ==
    [kind |-> kind, pc |-> pc, addr |-> addr, bid |-> bid, arg |-> arg,
     snap |-> NoDoc]

Push(q, e) ==
    IF keep = 0 THEN q
    ELSE IF Len(q) < keep THEN Append(q, e) ELSE Append(Tail(q), e)

\* res.status(...).json(...): request r of slot s is answered and ends.
Reply(s, r, resp, info) ==
    /\ req' = [req EXCEPT ![s] = Idle]
    /\ answers' = Push(answers, [kind |-> r.kind, addr |-> r.addr, bid |-> r.bid,
                                 resp |-> resp, info |-> info])

\* Request r of slot s is parked at an await.
Park(s, r) ==
    /\ req' = [req EXCEPT ![s] = r]
    /\ UNCHANGED answers

Exists(id) == id \in DOMAIN bounties

\* ------------------------------------------------------------- creation
\* A mutation of newBounty: the bounty is born without its creator.
newBounty_anonymous(creator, reward, requirements) ==
    [status |-> "open", creator |-> Null, claimedBy |-> Null,
     claimedAt |-> NoTime, submissions |-> <<>>, rejections |-> <<>>,
     releases |-> <<>>, reward |-> reward, requirements |-> requirements,
     payment |-> "none"]

newBounty(creator, reward, requirements) ==
    [status |-> "open", creator |-> creator, claimedBy |-> Null,
     claimedAt |-> NoTime, submissions |-> <<>>, rejections |-> <<>>,
     releases |-> <<>>, reward |-> reward, requirements |-> requirements,
     payment |-> "none"]

\* ------------------------------------------------------------ contents
\* Submission texts, by what the guards read of them.
\*   ""      the missing submission          "hi"   a 2-character text
\*   "text"  plain prose, 40 characters, carrying the requirement keywords
\*   "link"  prose with an embedded https://github.com/... link
\*   "test"  the bare URL http://example.com/test/1
\*   "huge"  prose of 5001 characters
contentLength(c) ==
    CASE c = "" -> 0
      [] c = "hi" -> 2
      [] c = "text" -> 40
      [] c = "link" -> 60
      [] c = "test" -> 25
      [] c = "huge" -> MAX_SUBMISSION_LENGTH + 1
      [] OTHER -> 40
includesHttp(c) == c \in {"link", "test", "http://proof"}
startsWithHttp(c) == c = "test"
isPlaceholderUrl(c) == c = "test"
hasKeywords(c) == c \in {"text", "link", "huge"}

\* One requirement of a bounty, by the branch of autograde it takes:
\* "url" (mentions url/link/published) or "kw" (the keyword fallback).
requirementMet(r, content, proof) ==
    IF r = "url"
    THEN includesHttp(content) \/ (proof # Null /\ includesHttp(proof))
    ELSE hasKeywords(content)

autograde(bounty, content, proof) ==
    LET reqs == bounty.requirements
        metCount == Cardinality({i \in 1..Len(reqs) :
                                   requirementMet(reqs[i], content, proof)})
        score == IF Len(reqs) = 0 THEN 100 ELSE Round100(metCount, Len(reqs))
    IN [score |-> score, passed |-> score >= 90]

\* ------------------------------------------------------- store access
\* The handler's bounty object once it wrote nb into it: with the remote
\* store the object is the handler's own copy, without it the live object.
Mutate(s, r, nb, pc) ==
    IF SUPABASE_KEY
    THEN /\ Park(s, [r EXCEPT !.snap = nb, !.pc = pc])
         /\ UNCHANGED bounties
    ELSE /\ Park(s, [r EXCEPT !.pc = pc])
         /\ bounties' = [bounties EXCEPT ![r.bid] = nb]

\* A mutation of Refuse: the handler has marked its bounty before it
\* answers with the error.
Refuse_marked(s, r, resp, info) ==
    /\ Reply(s, r, resp, info)
    /\ bounties' = [id \in DOMAIN bounties |->
                      IF id = r.bid THEN [bounties[id] EXCEPT !.status = "cancelled"]
                      ELSE bounties[id]]

\* An answer that leaves the bounties alone.
Refuse(s, r, resp, info) ==
    /\ Reply(s, r, resp, info)
    /\ UNCHANGED bounties

\* The handler's bounty object as it is now.
Obj(s) == IF SUPABASE_KEY THEN req[s].snap ELSE bounties[req[s].bid]

\* updateBounty(bounty.id, bounty), then the response.
updateBounty(s, resp) ==
    /\ req[s].pc = "write"
    /\ IF SUPABASE_KEY
       THEN /\ bounties' = [bounties EXCEPT ![req[s].bid] = req[s].snap]
            /\ UNCHANGED memUndefined
       ELSE /\ memUndefined' = {req[s].bid}
            /\ UNCHANGED bounties
    /\ Reply(s, req[s], resp, <<>>)

\* getAllBounties(): the documents a scan sees, as a bag of ids.  From
\* memory the scan walks every key of bountiesMemory, so the object under
\* the key "undefined" is seen a second time.
scanCount(id) ==
    IF ~SUPABASE_KEY /\ id \in memUndefined THEN 2 ELSE 1

\* The filter counting submitted work as still pending.
isPending_orSubmitted(b, address) ==
    /\ b.claimedBy # Null
    /\ toLowerCase(b.claimedBy) = toLowerCase(address)
    /\ b.status \in {"claimed", "submitted"}

isPending(b, address) ==
    /\ b.claimedBy # Null
    /\ toLowerCase(b.claimedBy) = toLowerCase(address)
    /\ b.status = "claimed"

pendingClaims(address) ==
    {id \in DOMAIN bounties : isPending(bounties[id], address)}

RECURSIVE SumCount(_)
SumCount(S) ==
    IF S = {} THEN 0
    ELSE LET x == CHOOSE y \in S : TRUE IN scanCount(x) + SumCount(S \ {x})

pendingLength(address) == SumCount(pendingClaims(address))

\* ---------------------------------------------------------------- agents
\* agents.set(key, value) seen from the remote store: _persist serialises
\* the value as it is at the call and POSTs it as the row of the key
\* (merge-duplicates).  The row is taken as written at once, the fetch
\* neither failing nor being overtaken.
persisted(rows, key, value) ==
    IF SUPABASE_KEY
    THEN [a \in DOMAIN rows \cup {key} |-> IF a = key THEN value ELSE rows[a]]
    ELSE rows

\* POST /agents: a handler without an await; the agent is stored under its
\* lowercased address with fresh counters (totalEarned is 0 while unset),
\* by agents.set, which also sends it to the remote store.
Register(address, name) ==
    /\ ~Resuming
    /\ IF address = Null \/ name = Null
       THEN /\ answers' = Push(answers, [kind |-> "register", addr |-> address,
                                         bid |-> MissingId,
                                         resp |-> "AddressAndNameRequired",
                                         info |-> <<>>])
            /\ UNCHANGED <<agents, agentRows>>
       ELSE LET agent == [name |-> name, reputation |-> 0,
                          completedBounties |-> 0, totalEarned |-> 0]
            IN
            /\ agents' = [a \in DOMAIN agents \cup {toLowerCase(address)} |->
                            IF a = toLowerCase(address) THEN agent
                            ELSE agents[a]]
            /\ agentRows' = persisted(agentRows, toLowerCase(address), agent)
            /\ answers' = Push(answers, [kind |-> "register", addr |-> address,
                                         bid |-> MissingId, resp |-> "ok",
                                         info |-> <<>>])
    /\ UNCHANGED <<SUPABASE_KEY, WALLET_PK, bounties, memUndefined, rateLimits,
                   now, ticks, req, nreq, nsub, transfers, keep, store,
                   pmap, bountiesMemory>>

\* ---------------------------------------------------------------- create
\* saveBounty: with the remote store the inserted row comes back and its
\* document is put into bountiesMemory under its id (and under its uuid,
\* which no request of the model uses); the updates that follow go to the
\* remote row only.  Without the remote store `bounties` holds the objects
\* of bountiesMemory themselves.
saved(id, bounty) ==
    IF SUPABASE_KEY THEN (id :> bounty) @@ bountiesMemory ELSE bountiesMemory

\* GET /bounties/:id while the remote store does not answer the reads:
\* supabaseRequest returns null for the row and for the scan, and getBounty
\* falls back to the values of bountiesMemory.
GetFallback(id) ==
    /\ SUPABASE_KEY
    /\ ~Resuming
    /\ answers' = Push(answers,
          IF id \in DOMAIN bountiesMemory
          THEN [kind |-> "get", addr |-> Null, bid |-> id, resp |-> "ok",
                info |-> <<bountiesMemory[id].status,
                           bountiesMemory[id].claimedBy>>]
          ELSE [kind |-> "get", addr |-> Null, bid |-> id,
                resp |-> "NotFound", info |-> <<>>])
    /\ UNCHANGED <<SUPABASE_KEY, WALLET_PK, bounties, memUndefined, rateLimits,
                   now, ticks, req, nreq, nsub, transfers, keep, agents, store,
                   pmap, bountiesMemory, agentRows>>

\* GET /bounties/:id while the remote store answers the reads: getBounty
\* returns the remote row when there is one, and the entry of bountiesMemory
\* only when neither the row nor the scan has the id.
Get(id) ==
    /\ SUPABASE_KEY
    /\ ~Resuming
    /\ answers' = Push(answers,
          IF id \in DOMAIN bounties
          THEN [kind |-> "get", addr |-> Null, bid |-> id, resp |-> "ok",
                info |-> <<bounties[id].status, bounties[id].claimedBy>>]
          ELSE IF id \in DOMAIN bountiesMemory
          THEN [kind |-> "get", addr |-> Null, bid |-> id, resp |-> "ok",
                info |-> <<bountiesMemory[id].status,
                           bountiesMemory[id].claimedBy>>]
          ELSE [kind |-> "get", addr |-> Null, bid |-> id,
                resp |-> "NotFound", info |-> <<>>])
    /\ UNCHANGED <<SUPABASE_KEY, WALLET_PK, bounties, memUndefined, rateLimits,
                   now, ticks, req, nreq, nsub, transfers, keep, agents, store,
                   pmap, bountiesMemory, agentRows>>

\* POST /bounties: requirePayment, rate limit, validation, saveBounty.
Create(s, paid, payer, reward, requirements) ==
    /\ CanStart(s)
    /\ nreq' = nreq + 1
    /\ LET rc == checkRateLimit(rateLimits, now, payer, "create")
           id == Cardinality(DOMAIN bounties) + 1
           r == Begin(s, "create", payer, id, <<>>, "done")
       IN IF ~paid
          THEN /\ Reply(s, r, "PaymentRequired", <<>>)
               /\ UNCHANGED <<bounties, rateLimits, bountiesMemory>>
          ELSE IF ~rc.allowed
          THEN /\ Reply(s, r, "RateLimited", <<rc.retryAfter>>)
               /\ UNCHANGED <<bounties, rateLimits, bountiesMemory>>
          ELSE /\ rateLimits' = rc.table
               /\ bounties' = (id :> newBounty(payer, reward, requirements)) @@ bounties
               /\ bountiesMemory' = saved(id, newBounty(payer, reward, requirements))
               /\ Reply(s, r, "ok", <<>>)
    /\ Cardinality(DOMAIN bounties) < MaxBounties
    /\ UNCHANGED <<SUPABASE_KEY, WALLET_PK, memUndefined, now, ticks, nsub, transfers, keep, agents, store, pmap,
                   agentRows>>

\* The treasury, spelled with capitals as its default is.
TREASURY_ADDRESS == "T"

\* POST /internal/bounties: the internal key, then saveBounty of a bounty
\* whose creator is the one supplied or else the treasury.
CreateInternal(s, internalKey, creator, reward, requirements) ==
    /\ CanStart(s)
    /\ nreq' = nreq + 1
    /\ LET id == Cardinality(DOMAIN bounties) + 1
           r == Begin(s, "createInternal", creator, id, <<>>, "done")
       IN IF ~internalKey
          THEN /\ Reply(s, r, "InvalidKey", <<>>)
               /\ UNCHANGED <<bounties, bountiesMemory>>
          ELSE LET bounty == newBounty(IF creator # Null THEN creator
                                       ELSE TREASURY_ADDRESS,
                                       reward, requirements)
               IN /\ bounties' = (id :> bounty) @@ bounties
                  /\ bountiesMemory' = saved(id, bounty)
                  /\ Reply(s, r, "ok", <<>>)
    /\ Cardinality(DOMAIN bounties) < MaxBounties
    /\ UNCHANGED <<SUPABASE_KEY, WALLET_PK, memUndefined, rateLimits, now, ticks,
                   nsub, transfers, keep, agents, store, pmap, agentRows>>

\* ----------------------------------------------------------------- claim
\* POST /bounties/:id/claim up to its first await: address, rate limit;
\* then isBlocklisted (which finds nothing without the remote store).
ClaimStart(s, address, bid) ==
    /\ CanStart(s)
    /\ nreq' = nreq + 1
    /\ LET rc == checkRateLimit(rateLimits, now, address, "claim")
           r == Begin(s, "claim", address, bid, <<>>, "scan")
       IN IF address = Null
          THEN /\ Reply(s, r, "AddressRequired", <<>>)
               /\ UNCHANGED rateLimits
          ELSE IF ~rc.allowed
          THEN /\ Reply(s, r, "RateLimited", <<rc.retryAfter>>)
               /\ UNCHANGED rateLimits
          ELSE /\ rateLimits' = rc.table
               /\ IF SUPABASE_KEY /\ toLowerCase(address) \in
                        {toLowerCase(w) : w \in blocklistWallets}
                  THEN Reply(s, r, "Blocklisted", <<>>)
                  ELSE Park(s, r)
    /\ UNCHANGED <<SUPABASE_KEY, WALLET_PK, bounties, memUndefined, now, ticks, nsub, transfers, keep, agents, store, pmap,
                   bountiesMemory, agentRows>>

\* The anti-hoarding scan over getAllBounties().
ClaimScan(s) ==
    /\ req[s].kind = "claim" /\ req[s].pc = "scan"
    /\ IF pendingLength(req[s].addr) >= MAX_PENDING_CLAIMS
       THEN Reply(s, req[s], "PendingLimit",
                  <<pendingClaims(req[s].addr), pendingLength(req[s].addr)>>)
       ELSE Park(s, [req[s] EXCEPT !.pc = "get"])
    /\ UNCHANGED <<SUPABASE_KEY, WALLET_PK, bounties, memUndefined, rateLimits,
                   now, ticks, nreq, nsub, transfers, keep, agents, store, pmap,
                   bountiesMemory, agentRows>>

claimFields(b, address, t) ==
    [b EXCEPT !.status = "claimed", !.claimedBy = toLowerCase(address),
              !.claimedAt = t]

\* The guard with the creator compared as it is spelled.
selfDealing_exact(b, address) ==
    b.creator # Null /\ b.creator = address

\* The claim handler without its self-dealing guard.
selfDealing_never(b, address) == FALSE

\* Does the self-dealing guard stop this requester?
selfDealing(b, address) ==
    b.creator # Null /\ toLowerCase(b.creator) = toLowerCase(address)

\* A claim request that is back from atomicClaim with null carries in arg
\* what atomicClaim logged on its way out: "not open" (the bounty it read
\* was not open), "race" (the conditional PATCH matched no row), or
\* "fallback" (the memory branch, which logs its warning only).
\* getBounty, the existence and self-dealing guards, and the call of
\* atomicClaim up to its first await.  Without the remote store atomicClaim
\* has no await: its check and its write are this one step.
ClaimGet(s) ==
    /\ req[s].kind = "claim" /\ req[s].pc = "get"
    /\ LET r == req[s] IN
       IF ~Exists(r.bid)
       THEN /\ Reply(s, req[s], "NotFound", <<>>)
            /\ UNCHANGED bounties
       ELSE IF selfDealing(bounties[r.bid], r.addr)
       THEN /\ Reply(s, req[s], "SelfDeal", <<>>)
            /\ UNCHANGED bounties
       ELSE IF SUPABASE_KEY
       THEN /\ Park(s, [req[s] EXCEPT !.pc = "atomicRead"])
            /\ UNCHANGED bounties
       ELSE IF bounties[r.bid].status # "open"
       THEN /\ Park(s, [req[s] EXCEPT !.pc = "reread", !.arg = <<"fallback">>])
            /\ UNCHANGED bounties
       ELSE /\ bounties' = [bounties EXCEPT ![r.bid] = claimFields(@, r.addr, now)]
            /\ Reply(s, req[s], "ok", <<toLowerCase(r.addr)>>)
    /\ UNCHANGED <<SUPABASE_KEY, WALLET_PK, memUndefined, rateLimits, now, ticks,
                   nreq, nsub, transfers, keep, agents, store, pmap,
                   bountiesMemory, agentRows>>

\* atomicClaim with the remote store: read, status check, merged data.
ClaimAtomicRead(s) ==
    /\ req[s].kind = "claim" /\ req[s].pc = "atomicRead"
    /\ LET existing == bounties[req[s].bid] IN
       IF existing.status # "open"
       THEN Park(s, [req[s] EXCEPT !.pc = "reread", !.arg = <<"not open">>])
       ELSE Park(s, [req[s] EXCEPT !.pc = "atomicWrite",
                                   !.snap = claimFields(existing, req[s].addr, now)])
    /\ UNCHANGED <<SUPABASE_KEY, WALLET_PK, bounties, memUndefined, rateLimits,
                   now, ticks, nreq, nsub, transfers, keep, agents, store, pmap,
                   bountiesMemory, agentRows>>

\* A PATCH by id alone, without the status filter.
patchMatches_any(row) == row.status # "absent"

\* The row filter of the conditional PATCH: data->>status = open.
patchMatches(row) == row.status = "open"

\* atomicClaim: the conditional PATCH of the whole merged document.
ClaimAtomicWrite(s) ==
    /\ req[s].kind = "claim" /\ req[s].pc = "atomicWrite"
    /\ IF patchMatches(bounties[req[s].bid])
       THEN /\ bounties' = [bounties EXCEPT ![req[s].bid] = req[s].snap]
            /\ Reply(s, req[s], "ok", <<req[s].snap.claimedBy>>)
       ELSE /\ Park(s, [req[s] EXCEPT !.pc = "reread", !.snap = NoDoc,
                                      !.arg = <<"race">>])
            /\ UNCHANGED bounties
    /\ UNCHANGED <<SUPABASE_KEY, WALLET_PK, memUndefined, rateLimits, now, ticks,
                   nreq, nsub, transfers, keep, agents, store, pmap,
                   bountiesMemory, agentRows>>

\* atomicClaim returned null: read the bounty again and answer.
ClaimReread(s) ==
    /\ req[s].kind = "claim" /\ req[s].pc = "reread"
    /\ LET current == bounties[req[s].bid] IN
       IF current.status = "claimed"
       THEN Reply(s, req[s], "Conflict", <<current.claimedBy>>)
       ELSE Reply(s, req[s], "NotOpen", <<>>)
    /\ UNCHANGED <<SUPABASE_KEY, WALLET_PK, bounties, memUndefined, rateLimits,
                   now, ticks, nreq, nsub, transfers, keep, agents, store, pmap,
                   bountiesMemory, agentRows>>

\* ---------------------------------------------------------------- submit
Undefined == "undefined"

\* POST /bounties/:id/submit up to its first await: address, rate limit.
SubmitStart(s, address, bid, submission, proof) ==
    /\ CanStart(s)
    /\ nreq' = nreq + 1
    /\ LET rc == checkRateLimit(rateLimits, now, address, "submit")
           r == Begin(s, "submit", address, bid,
                      [submission |-> submission, proof |-> proof], "read")
       IN IF address = Null
          THEN /\ Reply(s, r, "AddressRequired", <<>>)
               /\ UNCHANGED rateLimits
          ELSE IF ~rc.allowed
          THEN /\ Reply(s, r, "RateLimited", <<rc.retryAfter>>)
               /\ UNCHANGED rateLimits
          ELSE /\ rateLimits' = rc.table
               /\ Park(s, r)
    /\ UNCHANGED <<SUPABASE_KEY, WALLET_PK, bounties, memUndefined, now, ticks, nsub, transfers, keep, agents, store, pmap,
                   bountiesMemory, agentRows>>

rewardUSDC20(b) == b.reward > 20 * 1000000
rewardUSDC30(b) == b.reward > 30 * 1000000

\* A mutation of tooFast: the guard still rejects at the minimum itself.
tooFast_inclusive(b, t) ==
    /\ rewardUSDC20(b)
    /\ b.claimedAt # NoTime /\ b.claimedAt # 0
    /\ (t - b.claimedAt) <= MIN_WORK_TIME_MS

tooFast(b, t) ==
    /\ rewardUSDC20(b)
    /\ b.claimedAt # NoTime /\ b.claimedAt # 0
    /\ (t - b.claimedAt) < MIN_WORK_TIME_MS

newSubmission(id, submission, proof, t, score) ==
    [id |-> id, content |-> submission, proof |-> proof, submittedAt |-> t,
     edited |-> FALSE, autogradeScore |-> score]

\* Does the submission or the proof field carry a URL?
hasProofUrl(submission, proof) ==
    includesHttp(submission) \/ (proof # Null /\ includesHttp(proof))

\* The automatic rejection of every grade that did not pass.
autoRejected_notPassed(grade, submission, proof) ==
    ~grade.passed /\ ~hasProofUrl(submission, proof)

\* Only auto-reject obvious garbage (empty or < 20% with no URLs).
autoRejected(grade, submission, proof) ==
    grade.score < 20 /\ ~hasProofUrl(submission, proof)

\* getBounty and everything up to the await of updateBounty.
SubmitRead(s) ==
    /\ req[s].kind = "submit" /\ req[s].pc = "read"
    /\ LET r == req[s]
           submission == r.arg.submission
           proof == r.arg.proof
       IN
       IF ~Exists(r.bid) THEN Refuse(s, r, "NotFound", <<>>) /\ UNCHANGED nsub
       ELSE LET b == bounties[r.bid]
                grade == autograde(b, submission, proof)
            IN
            IF b.claimedBy # toLowerCase(r.addr)
            THEN Refuse(s, r, "Unauthorized", <<>>) /\ UNCHANGED nsub
            ELSE IF submission = ""
            THEN Refuse(s, r, "SubmissionRequired", <<>>) /\ UNCHANGED nsub
            ELSE IF tooFast(b, now)
            THEN Refuse(s, r, "TooFast",
                        <<Ceil(MIN_WORK_TIME_MS - (now - b.claimedAt), 60000)>>)
                 /\ UNCHANGED nsub
            ELSE IF rewardUSDC30(b) /\ proof = Null /\ ~includesHttp(submission)
            THEN Refuse(s, r, "ProofRequired", <<>>) /\ UNCHANGED nsub
            ELSE IF contentLength(submission) > MAX_SUBMISSION_LENGTH
            THEN Refuse(s, r, "TooLarge", <<>>) /\ UNCHANGED nsub
            ELSE IF autoRejected(grade, submission, proof)
            THEN Refuse(s, r, "AutoRejected", <<grade.score>>) /\ UNCHANGED nsub
            ELSE /\ nsub' = nsub + 1
                 /\ Mutate(s, r,
                      [b EXCEPT !.submissions = Append(@,
                                    newSubmission(nsub + 1, submission, proof, now,
                                                  grade.score)),
                                !.status = "submitted"],
                      "write")
    /\ UNCHANGED <<SUPABASE_KEY, WALLET_PK, memUndefined, rateLimits, now, ticks, nreq, transfers, keep, agents, store, pmap,
                   bountiesMemory, agentRows>>

\* The await of updateBounty of every handler but claim, and its answer.
Write(s) ==
    /\ req[s].kind \in {"submit", "edit", "delete", "approve", "reject",
                        "release", "cancel"}
    /\ updateBounty(s, "ok")
    /\ UNCHANGED <<SUPABASE_KEY, WALLET_PK, rateLimits, now, ticks, nreq, nsub, transfers, keep, agents, store, pmap,
                   bountiesMemory, agentRows>>

\* updateBounty while the remote store refuses the PATCH: supabaseRequest
\* logs the DB ERROR and returns null, the remote row stays as it was, the
\* handler's bounty is put into bountiesMemory under its id, and the
\* handler answers with that bounty.
WriteFails(s) ==
    /\ SUPABASE_KEY
    /\ req[s].kind \in {"submit", "edit", "delete", "approve", "reject",
                        "release", "cancel"}
    /\ req[s].pc = "write"
    /\ bountiesMemory' = (req[s].bid :> req[s].snap) @@ bountiesMemory
    /\ Reply(s, req[s], "ok",
             <<req[s].snap.status, req[s].snap.claimedBy, "DB ERROR">>)
    /\ UNCHANGED <<SUPABASE_KEY, WALLET_PK, bounties, memUndefined, rateLimits,
                   now, ticks, nreq, nsub, transfers, keep, agents, store, pmap,
                   agentRows>>

\* ------------------------------------------------- edit / delete submission
findIndex(subs, subId) ==
    IF \E i \in 1..Len(subs) : subs[i].id = subId
    THEN Min({i \in 1..Len(subs) : subs[i].id = subId})
    ELSE 0

\* PUT /bounties/:id/submissions/:subId
EditSubmission(s, address, bid, subId, submission, proof) ==
    /\ CanStart(s)
    /\ nreq' = nreq + 1
    /\ LET r == Begin(s, "edit", address, bid, <<>>, "read") IN
       IF ~Exists(bid) THEN Refuse(s, r, "NotFound", <<>>)
       ELSE LET b == bounties[bid]
                i == findIndex(b.submissions, subId)
            IN
            IF address = Null THEN Refuse(s, r, "AddressRequired", <<>>)
            ELSE IF b.claimedBy # toLowerCase(address)
            THEN Refuse(s, r, "Unauthorized", <<>>)
            ELSE IF i = 0 THEN Refuse(s, r, "SubmissionNotFound", <<>>)
            ELSE Mutate(s, r,
                   [b EXCEPT !.submissions[i] =
                       [@ EXCEPT !.content = IF submission # Undefined
                                             THEN submission ELSE @,
                                 !.proof = IF proof # Undefined THEN proof ELSE @,
                                 !.edited = TRUE]],
                   "write")
    /\ UNCHANGED <<SUPABASE_KEY, WALLET_PK, memUndefined, rateLimits, now, ticks, nsub, transfers, keep, agents, store, pmap,
                   bountiesMemory, agentRows>>

afterDelete(b, i) ==
    LET rest == RemoveAt(b.submissions, i) IN
    [b EXCEPT !.submissions = rest,
              !.status = IF Len(rest) = 0 /\ b.status = "submitted"
                         THEN "claimed" ELSE @]

\* DELETE /bounties/:id/submissions/:subId
DeleteSubmission(s, address, bid, subId) ==
    /\ CanStart(s)
    /\ nreq' = nreq + 1
    /\ LET r == Begin(s, "delete", address, bid, <<>>, "read") IN
       IF ~Exists(bid) THEN Refuse(s, r, "NotFound", <<>>)
       ELSE LET b == bounties[bid]
                i == findIndex(b.submissions, subId)
            IN
            IF address = Null THEN Refuse(s, r, "AddressRequired", <<>>)
            ELSE IF b.claimedBy # toLowerCase(address)
            THEN Refuse(s, r, "Unauthorized", <<>>)
            ELSE IF i = 0 THEN Refuse(s, r, "SubmissionNotFound", <<>>)
            ELSE Mutate(s, r, afterDelete(b, i), "write")
    /\ UNCHANGED <<SUPABASE_KEY, WALLET_PK, memUndefined, rateLimits, now, ticks, nsub, transfers, keep, agents, store, pmap,
                   bountiesMemory, agentRows>>

\* --------------------------------------------------------------- approve
orZero(t) == IF t = NoTime THEN 0 ELSE t

\* The garbage filter over the last submission; "" when it passes.
garbage(b) ==
    IF Len(b.submissions) = 0 THEN ""
    ELSE LET last == Last(b.submissions)
             claimToSubmitMs == orZero(last.submittedAt) - orZero(b.claimedAt)
         IN IF contentLength(last.content) < 10 THEN "TooShort"
            ELSE IF startsWithHttp(last.content) /\ isPlaceholderUrl(last.content)
            THEN "Placeholder"
            ELSE IF claimToSubmitMs > 0 /\ claimToSubmitMs < 60000
            THEN "LooksAutomated"
            ELSE ""

\* validInternalKey || isModApproval || creatorSignature: the signature is
\* only tested for being there.
authenticated(b, internalKey, modWallet, creatorSignature) ==
    \/ internalKey
    \/ modWallet # Null /\ isMod(modWallet)
    \/ creatorSignature # Null

\* The conflict-of-interest guard: it reads the modWallet field alone.
conflictOfInterest(b, modWallet) ==
    /\ modWallet # Null /\ b.claimedBy # Null
    /\ toLowerCase(modWallet) = toLowerCase(b.claimedBy)

\* POST /bounties/:id/approve up to the payment: getBounty, the status,
\* authentication, conflict-of-interest, garbage and recipient guards, and
\* without WALLET_PK the queueing for the payment relay.  internalKey says
\* whether the x-internal-key header is the valid one; creatorSignature is
\* Null when the body has none and otherwise names the identity whose key
\* made the signature.  The request keeps what it presented in arg, behind
\* the recipient of its transfer.
Approve(s, bid, internalKey, modWallet, creatorSignature) ==
    /\ CanStart(s)
    /\ nreq' = nreq + 1
    /\ LET r == Begin(s, "approve", modWallet, bid,
                      <<Null, internalKey, creatorSignature>>, "read")
           shown == <<internalKey, creatorSignature>>
       IN
       IF ~Exists(bid) THEN Refuse(s, r, "NotFound", <<>>)
       ELSE LET b == bounties[bid] IN
            IF b.status # "submitted" THEN Refuse(s, r, "NoSubmission", <<>>)
            ELSE IF ~authenticated(b, internalKey, modWallet, creatorSignature)
            THEN Refuse(s, r, "AuthRequired", shown)
            ELSE IF conflictOfInterest(b, modWallet)
            THEN Refuse(s, r, "ConflictOfInterest", shown)
            ELSE IF garbage(b) # "" THEN Refuse(s, r, garbage(b), shown)
            ELSE IF ~isAddress(b.claimedBy)
            THEN Refuse(s, r, "InvalidRecipient", shown)
            ELSE IF ~WALLET_PK
            THEN Mutate(s, r, [b EXCEPT !.status = "payment_pending",
                                        !.payment = "pending"], "write")
            ELSE Mutate(s, r, b, "balance")
    /\ UNCHANGED <<SUPABASE_KEY, WALLET_PK, memUndefined, rateLimits, now, ticks, nsub, transfers, keep, agents, store, pmap,
                   bountiesMemory, agentRows>>

\* await usdc.balanceOf, then the call of usdc.transfer(bounty.claimedBy),
\* which throws on a recipient that is no address.
ApproveBalance(s, sufficient) ==
    /\ req[s].kind = "approve" /\ req[s].pc = "balance"
    /\ Wakes(s)
    /\ IF ~sufficient
       THEN Reply(s, req[s], "InsufficientTreasury", <<>>)
       ELSE IF ~isAddress(Obj(s).claimedBy)
       THEN Reply(s, req[s], "TransferFailed", <<>>)
       ELSE Park(s, [req[s] EXCEPT !.pc = "transfer",
                                   !.arg[1] = Obj(s).claimedBy])
    /\ UNCHANGED <<SUPABASE_KEY, WALLET_PK, bounties, memUndefined, rateLimits,
                   now, ticks, nreq, nsub, transfers, keep, agents, store, pmap,
                   bountiesMemory, agentRows>>

markCompleted(b) == [b EXCEPT !.status = "completed", !.payment = "paid"]

\* grossReward - Math.floor(grossReward * FEE_PERCENT / 100)
netReward(b) == b.reward - (b.reward * FEE_PERCENT) \div 100

\* The reputation award that forgets to count the bounty.
awardReputation_uncounted(agent, net) ==
    [agent EXCEPT !.reputation = @ + 10, !.totalEarned = @ + net]

\* agent.reputation += 10; agent.completedBounties += 1; agent.totalEarned
\* = (agent.totalEarned || 0) + netReward
awardReputation(agent, net) ==
    [agent EXCEPT !.reputation = @ + 10, !.completedBounties = @ + 1,
                  !.totalEarned = @ + net]

\* The handler without its catch: the bounty object is marked completed
\* whether or not the transfer was confirmed.
ApproveTransfer_uncaught(s, success) ==
    /\ req[s].kind = "approve" /\ req[s].pc = "transfer"
    /\ Wakes(s)
    /\ Mutate(s, req[s], markCompleted(Obj(s)), "write")
    /\ transfers' = IF success
                    THEN Append(transfers,
                                [bid |-> req[s].bid, to |-> req[s].arg[1]])
                    ELSE transfers
    /\ UNCHANGED <<SUPABASE_KEY, WALLET_PK, memUndefined, rateLimits, now, ticks,
                   nreq, nsub, keep, agents, store, pmap,
                   bountiesMemory, agentRows>>

\* await tx.wait(): the transfer fails, or it succeeds and the bounty
\* object is marked completed.
ApproveTransfer(s, success) ==
    /\ req[s].kind = "approve" /\ req[s].pc = "transfer"
    /\ Wakes(s)
    /\ IF ~success
       THEN /\ Refuse(s, req[s], "TransferFailed", <<>>)
            /\ UNCHANGED transfers
       ELSE /\ Mutate(s, req[s], markCompleted(Obj(s)), "write")
            /\ transfers' = Append(transfers,
                                   [bid |-> req[s].bid, to |-> req[s].arg[1]])
    /\ agents' = IF success /\ Obj(s).claimedBy \in DOMAIN agents
                 THEN [agents EXCEPT ![Obj(s).claimedBy] =
                          awardReputation(@, netReward(Obj(s)))]
                 ELSE agents
    /\ UNCHANGED <<SUPABASE_KEY, WALLET_PK, memUndefined, rateLimits, now, ticks,
                   nreq, nsub, keep, store,
                   pmap, bountiesMemory, agentRows>>

\* The reset that leaves the submitted work on the bounty.
resetToOpen_keepsWork(b) ==
    [b EXCEPT !.status = "open", !.claimedBy = Null, !.claimedAt = NoTime]

\* ------------------------------------------------ reject / release / cancel
resetToOpen(b) ==
    [b EXCEPT !.status = "open", !.claimedBy = Null, !.claimedAt = NoTime,
              !.submissions = <<>>]

\* POST /bounties/:id/reject
Reject(s, bid, internalKey) ==
    /\ CanStart(s)
    /\ nreq' = nreq + 1
    /\ LET r == Begin(s, "reject", Null, bid, <<>>, "read") IN
       IF ~Exists(bid) THEN Refuse(s, r, "NotFound", <<>>)
       ELSE LET b == bounties[bid] IN
            IF ~internalKey THEN Refuse(s, r, "AuthRequired", <<>>)
            ELSE IF b.status \notin {"submitted", "claimed"}
            THEN Refuse(s, r, "InvalidState", <<>>)
            ELSE Mutate(s, r,
                   resetToOpen([b EXCEPT !.rejections = Append(@,
                       [previousClaimant |-> b.claimedBy,
                        previousSubmissions |-> b.submissions])]),
                   "write")
    /\ UNCHANGED <<SUPABASE_KEY, WALLET_PK, memUndefined, rateLimits, now, ticks, nsub, transfers, keep, agents, store, pmap,
                   bountiesMemory, agentRows>>

\* POST /bounties/:id/release
Release(s, address, bid) ==
    /\ CanStart(s)
    /\ nreq' = nreq + 1
    /\ LET r == Begin(s, "release", address, bid, <<>>, "read") IN
       IF ~Exists(bid) THEN Refuse(s, r, "NotFound", <<>>)
       ELSE LET b == bounties[bid] IN
            IF address = Null THEN Refuse(s, r, "AddressRequired", <<>>)
            ELSE IF b.claimedBy = Null
                    \/ toLowerCase(b.claimedBy) # toLowerCase(address)
            THEN Refuse(s, r, "Unauthorized", <<>>)
            ELSE IF b.status \notin {"claimed", "submitted"}
            THEN Refuse(s, r, "InvalidState", <<>>)
            ELSE Mutate(s, r,
                   resetToOpen([b EXCEPT !.releases = Append(@,
                       [releasedBy |-> toLowerCase(address),
                        previousStatus |-> b.status,
                        submissions |-> b.submissions])]),
                   "write")
    /\ UNCHANGED <<SUPABASE_KEY, WALLET_PK, memUndefined, rateLimits, now, ticks, nsub, transfers, keep, agents, store, pmap,
                   bountiesMemory, agentRows>>

\* POST /bounties/:id/cancel
Cancel(s, address, bid) ==
    /\ CanStart(s)
    /\ nreq' = nreq + 1
    /\ LET r == Begin(s, "cancel", address, bid, <<>>, "read") IN
       IF ~Exists(bid) THEN Refuse(s, r, "NotFound", <<>>)
       ELSE LET b == bounties[bid] IN
            IF address = Null \/ b.creator # toLowerCase(address)
            THEN Refuse(s, r, "Unauthorized", <<>>)
            ELSE IF b.status # "open"
            THEN Refuse(s, r, "InvalidState", <<>>)
            ELSE Mutate(s, r, [b EXCEPT !.status = "cancelled"], "write")
    /\ UNCHANGED <<SUPABASE_KEY, WALLET_PK, memUndefined, rateLimits, now, ticks, nsub, transfers, keep, agents, store, pmap,
                   bountiesMemory, agentRows>>

\* ------------------------------------------------------- clock and sweep
TickDeltas == {1, RATE_LIMIT_WINDOW_MS, MIN_WORK_TIME_MS}

Tick(d) ==
    /\ ticks < MaxTicks
    /\ ticks' = ticks + 1
    /\ now' = now + d
    /\ UNCHANGED <<SUPABASE_KEY, WALLET_PK, bounties, memUndefined, rateLimits,
                   req, nreq, nsub, transfers, answers, keep, agents, store, pmap,
                   bountiesMemory, agentRows>>

\* A mutation of the sweep's test: any entry older than now is swept.
stale_anyAge(entry, t) == (t - entry.windowStart) > 0

stale(entry, t) == (t - entry.windowStart) > RATE_LIMIT_WINDOW_MS * 2

\* The setInterval sweep of the rate limit table.
Sweep ==
    /\ \E k \in DOMAIN rateLimits : stale(rateLimits[k], now)
    /\ rateLimits' = [k \in {j \in DOMAIN rateLimits : ~stale(rateLimits[j], now)}
                        |-> rateLimits[k]]
    /\ UNCHANGED <<SUPABASE_KEY, WALLET_PK, bounties, memUndefined, now, ticks,
                   req, nreq, nsub, transfers, answers, keep, agents, store, pmap,
                   bountiesMemory, agentRows>>

\* A handler's call of checkRateLimit(address, action) and what it returns.
\* The answer notes, after retryAfter, the time of the call (Date.now()) and
\* the windowStart of the entry the call decided on.
Check(address, action) ==
    /\ nreq < MaxChecks
    /\ nreq' = nreq + 1
    /\ LET rc == checkRateLimit(rateLimits, now, address, action)
           key == rateKey(address, action)
           entry == IF rc.allowed THEN rc.table[key] ELSE rateLimits[key]
       IN
       /\ rateLimits' = rc.table
       /\ answers' = Push(answers,
                          [kind |-> action, addr |-> address, bid |-> MissingId,
                           resp |-> IF rc.allowed THEN "ok" ELSE "RateLimited",
                           info |-> <<rc.retryAfter, now, entry.windowStart>>])
    /\ UNCHANGED <<SUPABASE_KEY, WALLET_PK, bounties, memUndefined, now, ticks,
                   req, nsub, transfers, keep, agents, store, pmap,
                   bountiesMemory, agentRows>>

\* ------------------------------------------------------------------ inputs
BidInputs == DOMAIN bounties \cup {MissingId}
MissingSub == MaxReqs + 1
SubIdInputs == (1..nsub) \cup {MissingSub}
EmptyMap == [k \in {} |-> Null]

\* The process ends and a new one starts: the requests in flight and the
\* rate limit table are gone, and load() fills the agents map from the rows
\* of the remote store.  The bounties are remote and stay; bountiesMemory is
\* reloaded as saveBounty and updateBounty set it.
Restart ==
    /\ SUPABASE_KEY
    /\ req' = [s \in DOMAIN req |-> Idle]
    /\ rateLimits' = EmptyMap
    /\ agents' = agentRows
    /\ UNCHANGED <<SUPABASE_KEY, WALLET_PK, bounties, memUndefined, now, ticks,
                   nreq, nsub, transfers, answers, keep, store, pmap,
                   bountiesMemory, agentRows>>

ClaimSteps(s) ==
    \/ ClaimScan(s)
    \/ ClaimGet(s)
    \/ ClaimAtomicRead(s)
    \/ ClaimAtomicWrite(s)
    \/ ClaimReread(s)

\* ------------------------------------------------------------------- Spec
\* The lifecycle of a bounty within one rate-limit window, in each
\* configuration of the two keys, on a board that is empty or holds one
\* open bounty.
Init ==
    /\ SUPABASE_KEY \in BOOLEAN
    /\ WALLET_PK \in BOOLEAN
    /\ bounties \in {EmptyMap, 1 :> newBounty("c", 10000000, <<"url", "kw">>)}
    /\ memUndefined = {}
    /\ rateLimits = EmptyMap
    /\ now = 1
    /\ ticks = 0
    /\ req = [s \in Slots |-> Idle]
    /\ nreq = 0
    /\ nsub = 0
    /\ transfers = <<>>
    /\ answers = <<>>
    /\ keep = 1
    /\ agents = EmptyMap
    /\ store = NewStore
    /\ pmap = NewMap
    /\ bountiesMemory = << >>
    /\ agentRows = EmptyMap

Next ==
    \E s \in Slots :
        \/ \E paid \in BOOLEAN, payer \in {"c", "C"} :
              Create(s, paid, payer, 10000000, <<"url", "kw">>)
        \/ \E a \in {"a", "b", "c"}, bid \in BidInputs : ClaimStart(s, a, bid)
        \/ ClaimSteps(s)
        \/ \E bid \in BidInputs, c \in {"hi", "link"} :
              SubmitStart(s, "a", bid, c, Null)
        \/ SubmitRead(s)
        \/ Write(s)
        \/ \E bid \in BidInputs, i \in SubIdInputs :
              EditSubmission(s, "a", bid, i, "test", Undefined)
        \/ \E bid \in BidInputs, i \in SubIdInputs :
              DeleteSubmission(s, "a", bid, i)
        \/ \E bid \in BidInputs, k \in BOOLEAN : Approve(s, bid, k, Null, Null)
        \/ \E ok \in BOOLEAN : ApproveBalance(s, ok)
        \/ \E ok \in BOOLEAN : ApproveTransfer(s, ok)
        \/ \E bid \in BidInputs : Reject(s, bid, TRUE)
        \/ \E bid \in BidInputs : Release(s, "a", bid)
        \/ \E a \in {"c", "C"}, bid \in BidInputs : Cancel(s, a, bid)

Spec == Init /\ [][Next]_vars

\* --------------------------------------------------------------- SpecRace
\* Claim requests of several identities racing for one open bounty.
InitRace ==
    /\ SUPABASE_KEY \in BOOLEAN
    /\ WALLET_PK = FALSE
    /\ bounties = 1 :> newBounty("c", 10000000, <<"url", "kw">>)
    /\ memUndefined = {}
    /\ rateLimits = EmptyMap
    /\ now = 1
    /\ ticks = 0
    /\ req = [s \in 1..MaxRacers |-> Idle]
    /\ nreq = 0
    /\ nsub = 0
    /\ transfers = <<>>
    /\ answers = <<>>
    /\ keep = MaxReqs
    /\ agents = EmptyMap
    /\ store = NewStore
    /\ pmap = NewMap
    /\ bountiesMemory = << >>
    /\ agentRows = EmptyMap

NextRace ==
    \E s \in 1..MaxRacers :
        \/ \E a \in {"a", "A", "b", "d", "c"} : ClaimStart(s, a, 1)
        \/ ClaimSteps(s)

SpecRace == InitRace /\ [][NextRace]_vars

\* -------------------------------------------------------------- SpecHoard
\* One identity at the admission ceiling: "a" has just claimed
\* MAX_PENDING_CLAIMS bounties of creator "c" within one rate window, and
\* one more bounty is open.
InitHoard ==
    /\ SUPABASE_KEY \in BOOLEAN
    /\ WALLET_PK = FALSE
    /\ bounties = [id \in 1..(MAX_PENDING_CLAIMS + 1) |->
                     IF id <= MAX_PENDING_CLAIMS
                     THEN claimFields(newBounty("c", 10000000, <<"url", "kw">>),
                                      "a", 1)
                     ELSE newBounty("c", 10000000, <<"url", "kw">>)]
    /\ memUndefined = {}
    /\ rateLimits = (rateKey("a", "claim") :>
                        [count |-> MAX_PENDING_CLAIMS, windowStart |-> 1])
    /\ now = 1
    /\ ticks = 0
    /\ req = [s \in Slots |-> Idle]
    /\ nreq = 0
    /\ nsub = 0
    /\ transfers = <<>>
    /\ answers = <<>>
    /\ keep = 3
    /\ agents = EmptyMap
    /\ store = NewStore
    /\ pmap = NewMap
    /\ bountiesMemory = << >>
    /\ agentRows = EmptyMap

NextHoard ==
    \/ \E s \in Slots :
        \/ \E bid \in {1, MAX_PENDING_CLAIMS + 1} : ClaimStart(s, "a", bid)
        \/ ClaimSteps(s)
        \/ \E bid \in {1, 2} : SubmitStart(s, "a", bid, "link", Null)
        \/ SubmitRead(s)
        \/ Write(s)
        \/ \E bid \in {1, 2}, i \in 1..nsub : DeleteSubmission(s, "a", bid, i)
    \/ Tick(RATE_LIMIT_WINDOW_MS + 1)

SpecHoard == InitHoard /\ [][NextHoard]_vars

\* --------------------------------------------------------------- SpecRate
\* The rate limiter alone: checks of a few keys, the clock and the sweep.
InitRate ==
    /\ SUPABASE_KEY = FALSE
    /\ WALLET_PK = FALSE
    /\ bounties = EmptyMap
    /\ memUndefined = {}
    /\ rateLimits = EmptyMap
    /\ now = 1
    /\ ticks = 0
    /\ req = [s \in Slots |-> Idle]
    /\ nreq = 0
    /\ nsub = 0
    /\ transfers = <<>>
    /\ answers = <<>>
    /\ keep = 2
    /\ agents = EmptyMap
    /\ store = NewStore
    /\ pmap = NewMap
    /\ bountiesMemory = << >>
    /\ agentRows = EmptyMap

NextRate ==
    \/ \E a \in {"a", "A", "b"}, action \in {"claim", "create"} :
          Check(a, action)
    \/ \E d \in TickDeltas : Tick(d)
    \/ Sweep

SpecRate == InitRate /\ [][NextRate]_vars

\* ------------------------------------------------------------ SpecLimiter
\* The rate limiter with the whole history of its calls kept: checks of the
\* keys of CheckInputs, the clock and the sweep.
CheckInputs ==
    {<<"a", "create">>, <<"A", "create">>, <<"b", "claim">>,
     <<"b", "submit">>, <<"b", "other">>}

InitLimiter ==
    /\ SUPABASE_KEY = FALSE
    /\ WALLET_PK = FALSE
    /\ bounties = EmptyMap
    /\ memUndefined = {}
    /\ rateLimits = EmptyMap
    /\ now = 1
    /\ ticks = 0
    /\ req = [s \in Slots |-> Idle]
    /\ nreq = 0
    /\ nsub = 0
    /\ transfers = <<>>
    /\ answers = <<>>
    /\ keep = MaxChecks
    /\ agents = EmptyMap
    /\ store = NewStore
    /\ pmap = NewMap
    /\ bountiesMemory = << >>
    /\ agentRows = EmptyMap

NextLimiter ==
    \/ \E c \in CheckInputs : Check(c[1], c[2])
    \/ \E d \in TickDeltas : Tick(d)
    \/ Sweep

SpecLimiter == InitLimiter /\ [][NextLimiter]_vars

\* ------------------------------------------- specification: approvals
\* One open bounty of creator "c"; "a" and the moderator "m" claim it and
\* submit work, and approve requests arrive with every combination of the
\* internal key, a modWallet and a creatorSignature.
ModWalletInputs == {Null, "m", "a"}
SignerInputs == {Null, "c", "a", "b"}

InitApprove ==
    /\ SUPABASE_KEY \in BOOLEAN
    /\ WALLET_PK \in BOOLEAN
    /\ bounties = 1 :> newBounty("c", 10000000, <<"url", "kw">>)
    /\ memUndefined = {}
    /\ rateLimits = EmptyMap
    /\ now = 1
    /\ ticks = 0
    /\ req = [s \in Slots |-> Idle]
    /\ nreq = 0
    /\ nsub = 0
    /\ transfers = <<>>
    /\ answers = <<>>
    /\ keep = 1
    /\ agents = EmptyMap
    /\ store = NewStore
    /\ pmap = NewMap
    /\ bountiesMemory = << >>
    /\ agentRows = EmptyMap

NextApprove ==
    \E s \in Slots :
        \/ \E a \in {"a", "m"} : ClaimStart(s, a, 1)
        \/ ClaimSteps(s)
        \/ \E a \in {"a", "m"} : SubmitStart(s, a, 1, "link", Null)
        \/ SubmitRead(s)
        \/ Write(s)
        \/ \E k \in BOOLEAN, mw \in ModWalletInputs, sig \in SignerInputs :
              Approve(s, 1, k, mw, sig)
        \/ \E ok \in BOOLEAN : ApproveBalance(s, ok)
        \/ \E ok \in BOOLEAN : ApproveTransfer(s, ok)

SpecApprove == InitApprove /\ [][NextApprove]_vars

\* ------------------------------------------- specification: cancelling
\* Bounties posted by a payer or through the internal endpoint, claims by
\* "a", and cancel requests by the creators in both spellings and by "a".
CancelInputs == {"c", "C", "t", "T", "a"}

InitCancel ==
    /\ SUPABASE_KEY \in BOOLEAN
    /\ WALLET_PK \in BOOLEAN
    /\ bounties = EmptyMap
    /\ memUndefined = {}
    /\ rateLimits = EmptyMap
    /\ now = 1
    /\ ticks = 0
    /\ req = [s \in Slots |-> Idle]
    /\ nreq = 0
    /\ nsub = 0
    /\ transfers = <<>>
    /\ answers = <<>>
    /\ keep = 1
    /\ agents = EmptyMap
    /\ store = NewStore
    /\ pmap = NewMap
    /\ bountiesMemory = << >>
    /\ agentRows = EmptyMap

NextCancel ==
    \E s \in Slots :
        \/ \E paid \in BOOLEAN, payer \in {"c", "C"} :
              Create(s, paid, payer, 10000000, <<"url", "kw">>)
        \/ \E k \in BOOLEAN, creator \in {Null, "c"} :
              CreateInternal(s, k, creator, 10000000, <<"url", "kw">>)
        \/ \E bid \in BidInputs : ClaimStart(s, "a", bid)
        \/ ClaimSteps(s)
        \/ \E a \in CancelInputs, bid \in BidInputs : Cancel(s, a, bid)
        \/ Write(s)

SpecCancel == InitCancel /\ [][NextCancel]_vars

\* --------------------------------------------- specification: the grader
\* autograde applied to bounties of up to MaxRequirements requirements, the
\* first k of them asking for a link and the others for key content, and
\* to submissions with and without a link, a proof and the key content.
requirementList(n, k) == [i \in 1..n |-> IF i <= k THEN "url" ELSE "kw"]

RequirementInputs ==
    {requirementList(p[1], p[2]) :
        p \in {q \in (0..MaxRequirements) \X (0..MaxRequirements) : q[2] <= q[1]}}

ContentInputs == {"hi", "text", "link"}
ProofInputs == {Null, "http://proof"}

\* gradeResult = autograde(bounty, submission, proof)
Autograde(bid, submission, proof) ==
    /\ Exists(bid)
    /\ answers' = Push(answers,
          [kind |-> "autograde", addr |-> Null, bid |-> bid, resp |-> "graded",
           info |-> <<submission, proof,
                      autograde(bounties[bid], submission, proof)>>])
    /\ UNCHANGED <<SUPABASE_KEY, WALLET_PK, bounties, memUndefined, rateLimits,
                   now, ticks, req, nreq, nsub, transfers, keep, agents, store, pmap,
                   bountiesMemory, agentRows>>

InitGrade ==
    /\ SUPABASE_KEY = FALSE
    /\ WALLET_PK = FALSE
    /\ \E reqs \in RequirementInputs :
          bounties = 1 :> newBounty("c", 10000000, reqs)
    /\ memUndefined = {}
    /\ rateLimits = EmptyMap
    /\ now = 1
    /\ ticks = 0
    /\ req = [s \in Slots |-> Idle]
    /\ nreq = 0
    /\ nsub = 0
    /\ transfers = <<>>
    /\ answers = <<>>
    /\ keep = 1
    /\ agents = EmptyMap
    /\ store = NewStore
    /\ pmap = NewMap
    /\ bountiesMemory = << >>
    /\ agentRows = EmptyMap

NextGrade ==
    \E submission \in ContentInputs, proof \in ProofInputs :
        Autograde(1, submission, proof)

SpecGrade == InitGrade /\ [][NextGrade]_vars

\* ----------------------------------------- specification: submitting
\* One bounty, below or above the rewards that ask for work time and a
\* proof, with no, one or two requirements; "a" claims it and submits
\* texts with and without a link, a proof and the key content; between
\* requests the clock moves by the minimum work time.
InitSubmit ==
    /\ SUPABASE_KEY \in BOOLEAN
    /\ WALLET_PK = FALSE
    /\ \E reward \in {10000000, 35000000},
          reqs \in {<<>>, <<"kw">>, <<"url", "kw">>} :
          bounties = 1 :> newBounty("c", reward, reqs)
    /\ memUndefined = {}
    /\ rateLimits = EmptyMap
    /\ now = 1
    /\ ticks = 0
    /\ req = [s \in Slots |-> Idle]
    /\ nreq = 0
    /\ nsub = 0
    /\ transfers = <<>>
    /\ answers = <<>>
    /\ keep = 1
    /\ agents = EmptyMap
    /\ store = NewStore
    /\ pmap = NewMap
    /\ bountiesMemory = << >>
    /\ agentRows = EmptyMap

NextSubmit ==
    \/ \E s \in Slots :
          \/ ClaimStart(s, "a", 1)
          \/ ClaimSteps(s)
          \/ \E submission \in ContentInputs \cup {"huge"}, proof \in ProofInputs :
                SubmitStart(s, "a", 1, submission, proof)
          \/ SubmitRead(s)
          \/ Write(s)
    \/ (\A s \in Slots : Free(s)) /\ Tick(MIN_WORK_TIME_MS)

SpecSubmit == InitSubmit /\ [][NextSubmit]_vars

\* ---------------------------------------- specification: the paid flow
\* The creator "c" posts a bounty of 25 USDC; "A" registers as an agent,
\* claims the bounty, lets eleven minutes pass, submits work with a proof
\* URL, and the creator approves it with its signature.
ElevenMinutes == MIN_WORK_TIME_MS + RATE_LIMIT_WINDOW_MS

InitFlow ==
    /\ SUPABASE_KEY \in BOOLEAN
    /\ WALLET_PK \in BOOLEAN
    /\ bounties = EmptyMap
    /\ memUndefined = {}
    /\ rateLimits = EmptyMap
    /\ now = 1
    /\ ticks = 0
    /\ req = [s \in Slots |-> Idle]
    /\ nreq = 0
    /\ nsub = 0
    /\ transfers = <<>>
    /\ answers = <<>>
    /\ keep = 1
    /\ agents = EmptyMap
    /\ store = NewStore
    /\ pmap = NewMap
    /\ bountiesMemory = << >>
    /\ agentRows = EmptyMap

NextFlow ==
    \/ \E s \in Slots :
          \/ Create(s, TRUE, "c", 25000000, <<"url", "kw">>)
          \/ ClaimStart(s, "A", 1)
          \/ ClaimSteps(s)
          \/ \E submission \in {"text", "link"} :
                SubmitStart(s, "A", 1, submission, "http://proof")
          \/ SubmitRead(s)
          \/ Write(s)
          \/ Approve(s, 1, FALSE, Null, "c")
          \/ \E ok \in BOOLEAN : ApproveBalance(s, ok)
          \/ \E ok \in BOOLEAN : ApproveTransfer(s, ok)
    \/ \E name \in {Null, "agent"} : Register("A", name)
    \/ (\A s \in Slots : Free(s)) /\ Tick(ElevenMinutes)

SpecFlow == InitFlow /\ [][NextFlow]_vars

\* ------------------------------------ specification: the agents restored
\* The paid flow with the remote store configured, and the process
\* restarting at any moment.
InitIdentity ==
    /\ InitFlow
    /\ SUPABASE_KEY = TRUE

NextIdentity ==
    \/ NextFlow
    \/ Restart

SpecIdentity == InitIdentity /\ [][NextIdentity]_vars

\* ------------------------------------------------ the store (createStore)
\* store.maps is the object `maps` with the state of each map's _load():
\* "loading" while the fetch is in flight, "loaded" or "failed" once it has
\* settled (the promise of _load is fulfilled either way: every failure is
\* caught), "skipped" when there is no key and _load returns at once.
\* loadPromises holds one promise per map, in the order of creation.
\* store.readyPromise is << >> while _readyPromise is null, and otherwise
\* <<S>> with S the collections whose load promises were in loadPromises
\* when Promise.all read the array.  store.gate is the promise p captured
\* by the installed middleware, store.waiting the requests at `await p`,
\* and store.handled collects, for every call of next(), the collections
\* whose load was still in flight at that moment.
Collections == {"bountiesMemory", "agents", "webhooks"}

load == IF SUPABASE_KEY THEN "loading" ELSE "skipped"

loading == {c \in DOMAIN store.maps : store.maps[c] = "loading"}

OtherUnchanged ==
    UNCHANGED <<SUPABASE_KEY, WALLET_PK, bounties, memUndefined, rateLimits,
                now, ticks, req, nreq, nsub, transfers, answers, keep, agents,
                pmap, bountiesMemory, agentRows>>

\* map(collection): an existing map is returned as it is; a new one is
\* created and its _load() started and pushed onto loadPromises.
map(collection) ==
    /\ collection \notin DOMAIN store.maps
    /\ store' = [store EXCEPT !.maps =
                    [c \in DOMAIN store.maps \cup {collection} |->
                        IF c = collection THEN load ELSE store.maps[c]]]
    /\ OtherUnchanged

\* The fetch of a map's _load() comes back: rows, a bad status or an error.
loadSettles(collection, outcome) ==
    /\ collection \in DOMAIN store.maps
    /\ store.maps[collection] = "loading"
    /\ store' = [store EXCEPT !.maps[collection] = outcome]
    /\ OtherUnchanged

\* Promise.all(loadPromises), made by the first ready() and returned by
\* every later one.
allPromise == IF store.readyPromise = << >> THEN <<DOMAIN store.maps>>
              ELSE store.readyPromise

ready ==
    /\ store.readyPromise = << >>
    /\ store' = [store EXCEPT !.readyPromise = allPromise]
    /\ OtherUnchanged

\* middleware(): p = store.ready(), captured by the returned handler
\* (installed once, src/server.js:342).
middleware ==
    /\ store.gate = << >>
    /\ store' = [store EXCEPT !.readyPromise = allPromise, !.gate = allPromise]
    /\ OtherUnchanged

\* A request enters the installed middleware and waits at `await p`.
awaitReady ==
    /\ store.gate # << >>
    /\ store.arrived < MaxArrivals
    /\ store' = [store EXCEPT !.waiting = @ + 1, !.arrived = @ + 1]
    /\ OtherUnchanged

\* p is fulfilled (every load promise it was made from has settled): the
\* request goes on to next(), and its handler runs.
next ==
    /\ store.waiting > 0
    /\ \A c \in store.gate[1] : store.maps[c] # "loading"
    /\ store' = [store EXCEPT !.waiting = @ - 1,
                              !.handled = @ \cup {loading}]
    /\ OtherUnchanged

InitStore ==
    /\ SUPABASE_KEY \in BOOLEAN
    /\ WALLET_PK = FALSE
    /\ bounties = EmptyMap
    /\ memUndefined = {}
    /\ rateLimits = EmptyMap
    /\ now = 1
    /\ ticks = 0
    /\ req = [s \in Slots |-> Idle]
    /\ nreq = 0
    /\ nsub = 0
    /\ transfers = <<>>
    /\ answers = <<>>
    /\ keep = 1
    /\ agents = EmptyMap
    /\ store = NewStore
    /\ pmap = NewMap
    /\ bountiesMemory = << >>
    /\ agentRows = EmptyMap

NextStore ==
    \/ \E collection \in Collections : map(collection)
    \/ \E collection \in Collections : \E outcome \in {"loaded", "failed"} :
          loadSettles(collection, outcome)
    \/ ready
    \/ middleware
    \/ awaitReady
    \/ next

SpecStore == InitStore /\ [][NextStore]_vars

\* ---------------------------------------------------------- PersistentMap
\* pmap.cache is _cache, pmap.rows the rows of the collection in the remote
\* table (item_key -> data), pmap.fetches the requests sent and not yet
\* settled, each with the number of the call that sent it.  pmap.logged
\* counts the errors the .catch handlers logged, pmap.thrown the errors
\* that reached a caller of set or delete, pmap.last is the latest call
\* with what it returned.
KeyInputs == {[type |-> "string", text |-> "k"],
              [type |-> "string", text |-> "1"],
              [type |-> "number", text |-> "1"]}
ValueInputs == {"v", "w"}

\* String(key): a number and the string of its digits are the same key.
String(key) == key.text

MapUnchanged ==
    UNCHANGED <<SUPABASE_KEY, WALLET_PK, bounties, memUndefined, rateLimits,
                now, ticks, req, nreq, nsub, transfers, answers, keep, agents,
                store, bountiesMemory, agentRows>>

\* _persist(key, value) and _remove(key): without the key nothing is sent,
\* with it one fetch leaves and nobody waits for it.
sent(m, method, k, value) ==
    IF SUPABASE_KEY
    THEN m.fetches \cup {[n |-> m.issued + 1, method |-> method,
                          item_key |-> k, data |-> value]}
    ELSE m.fetches

\* set(key, value): _cache.set, _persist, return this.
set(key, value) ==
    /\ pmap.issued < MaxCalls
    /\ LET k == String(key) IN
       pmap' = [pmap EXCEPT
                  !.cache = [c \in DOMAIN pmap.cache \cup {k} |->
                               IF c = k THEN value ELSE pmap.cache[c]],
                  !.fetches = sent(pmap, "POST", k, value),
                  !.issued = @ + 1,
                  !.last = [op |-> "set", key |-> k, result |-> "this"]]
    /\ MapUnchanged

\* delete(key): _cache.delete, _remove when the key was there, return
\* whether it was.
delete(key) ==
    /\ pmap.issued < MaxCalls
    /\ LET k == String(key)
           existed == k \in DOMAIN pmap.cache
       IN pmap' = [pmap EXCEPT
                     !.cache = [c \in DOMAIN pmap.cache \ {k} |-> pmap.cache[c]],
                     !.fetches = IF existed THEN sent(pmap, "DELETE", k, Null)
                                 ELSE @,
                     !.issued = @ + 1,
                     !.last = [op |-> "delete", key |-> k, result |-> existed]]
    /\ MapUnchanged

\* The remote table once it has carried out request f: an upsert on the
\* item key (resolution=merge-duplicates) or the removal of its row.
applied(rows, f) ==
    IF f.method = "POST"
    THEN [c \in DOMAIN rows \cup {f.item_key} |->
            IF c = f.item_key THEN f.data ELSE rows[c]]
    ELSE [c \in DOMAIN rows \ {f.item_key} |-> rows[c]]

\* A mutation of afterFailure: the change of the failed call is taken back.
afterFailure_rollback(m, f, outcome) ==
    [m EXCEPT !.fetches = @ \ {f}, !.failures = @ + 1,
              !.cache = [c \in DOMAIN m.cache \ {f.item_key} |-> m.cache[c]]]

\* The map after fetch f failed: a rejected fetch (no answer) is logged by
\* the .catch handler, an answer with an error status is read by nobody.
afterFailure(m, f, outcome) ==
    [m EXCEPT !.fetches = @ \ {f}, !.failures = @ + 1,
              !.logged = IF outcome = "rejected" THEN @ + 1 ELSE @]

\* A fetch in flight settles: carried out by the remote store, rejected, or
\* answered with an error status.  The fetches of one map travel
\* independently, so they settle in any order.
settle(f, outcome) ==
    /\ f \in pmap.fetches
    /\ pmap' = IF outcome = "ok"
               THEN [pmap EXCEPT !.fetches = @ \ {f},
                                 !.rows = applied(@, f)]
               ELSE afterFailure(pmap, f, outcome)
    /\ MapUnchanged

FetchInputs ==
    [n : 1..MaxCalls, method : {"POST"}, item_key : {"k", "1"},
     data : ValueInputs]
    \cup [n : 1..MaxCalls, method : {"DELETE"}, item_key : {"k", "1"},
          data : {Null}]

InitMap ==
    /\ SUPABASE_KEY \in BOOLEAN
    /\ WALLET_PK = FALSE
    /\ bounties = EmptyMap
    /\ memUndefined = {}
    /\ rateLimits = EmptyMap
    /\ now = 1
    /\ ticks = 0
    /\ req = [s \in Slots |-> Idle]
    /\ nreq = 0
    /\ nsub = 0
    /\ transfers = <<>>
    /\ answers = <<>>
    /\ keep = 1
    /\ agents = EmptyMap
    /\ store = NewStore
    /\ pmap = NewMap
    /\ bountiesMemory = << >>
    /\ agentRows = EmptyMap

NextMap ==
    \/ \E key \in KeyInputs : \E value \in ValueInputs : set(key, value)
    \/ \E key \in KeyInputs : delete(key)
    \/ \E f \in FetchInputs : \E outcome \in {"ok", "rejected", "status"} :
          settle(f, outcome)

SpecMap == InitMap /\ [][NextMap]_vars

\* ------------------------------------ specification: the bounty cache
\* The remote store is configured; bounties are created, claimed, worked
\* on, released and cancelled, and read while the remote reads fail.
InitCache ==
    /\ SUPABASE_KEY = TRUE
    /\ WALLET_PK = FALSE
    /\ bounties = EmptyMap
    /\ memUndefined = {}
    /\ rateLimits = EmptyMap
    /\ now = 1
    /\ ticks = 0
    /\ req = [s \in Slots |-> Idle]
    /\ nreq = 0
    /\ nsub = 0
    /\ transfers = <<>>
    /\ answers = <<>>
    /\ keep = 1
    /\ agents = EmptyMap
    /\ store = NewStore
    /\ pmap = NewMap
    /\ bountiesMemory = << >>
    /\ agentRows = EmptyMap

NextCache ==
    \/ \E s \in Slots :
          \/ Create(s, TRUE, "c", 10000000, <<"kw">>)
          \/ ClaimStart(s, "a", 1)
          \/ ClaimSteps(s)
          \/ SubmitStart(s, "a", 1, "text", Null)
          \/ SubmitRead(s)
          \/ Write(s)
          \/ Release(s, "a", 1)
          \/ Cancel(s, "c", 1)
    \/ \E id \in {1, MissingId} : GetFallback(id)

SpecCache == InitCache /\ [][NextCache]_vars

\* ------------------------------- specification: the remote store failing
\* The remote store is configured and holds one bounty that saveBounty also
\* put into bountiesMemory; the bounty is claimed, worked on, released and
\* cancelled while the PATCH of an update may be refused, and it is read
\* with the remote reads answering or failing.
InitDegraded ==
    /\ SUPABASE_KEY = TRUE
    /\ WALLET_PK = FALSE
    /\ bounties = 1 :> newBounty("c", 10000000, <<"kw">>)
    /\ memUndefined = {}
    /\ rateLimits = EmptyMap
    /\ now = 1
    /\ ticks = 0
    /\ req = [s \in Slots |-> Idle]
    /\ nreq = 0
    /\ nsub = 0
    /\ transfers = <<>>
    /\ answers = <<>>
    /\ keep = 2
    /\ agents = EmptyMap
    /\ store = NewStore
    /\ pmap = NewMap
    /\ bountiesMemory = 1 :> newBounty("c", 10000000, <<"kw">>)
    /\ agentRows = EmptyMap

NextDegraded ==
    \/ \E s \in Slots :
          \/ ClaimStart(s, "a", 1)
          \/ ClaimSteps(s)
          \/ SubmitStart(s, "a", 1, "text", Null)
          \/ SubmitRead(s)
          \/ Write(s)
          \/ WriteFails(s)
          \/ Release(s, "a", 1)
          \/ Cancel(s, "c", 1)
    \/ \E id \in {1, MissingId} : Get(id)
    \/ \E id \in {1, MissingId} : GetFallback(id)

SpecDegraded == InitDegraded /\ [][NextDegraded]_vars

\* ------------------------------------- specification: the work time
\* One bounty of exactly 20 USDC or of 25 USDC; "a" claims it and submits,
\* with a text or with none, while the clock moves by a millisecond or by
\* one millisecond less than the minimum work time.
WorkDeltas == {1, MIN_WORK_TIME_MS - 1}

InitWork ==
    /\ SUPABASE_KEY \in BOOLEAN
    /\ WALLET_PK = FALSE
    /\ \E reward \in {20000000, 25000000} :
          bounties = 1 :> newBounty("c", reward, <<"kw">>)
    /\ memUndefined = {}
    /\ rateLimits = EmptyMap
    /\ now = 1
    /\ ticks = 0
    /\ req = [s \in Slots |-> Idle]
    /\ nreq = 0
    /\ nsub = 0
    /\ transfers = <<>>
    /\ answers = <<>>
    /\ keep = 1
    /\ agents = EmptyMap
    /\ store = NewStore
    /\ pmap = NewMap
    /\ bountiesMemory = << >>
    /\ agentRows = EmptyMap

NextWork ==
    \/ \E s \in Slots :
          \/ ClaimStart(s, "a", 1)
          \/ ClaimSteps(s)
          \/ \E submission \in {"", "text"} : SubmitStart(s, "a", 1, submission, Null)
          \/ SubmitRead(s)
          \/ Write(s)
    \/ \E d \in WorkDeltas : Tick(d)

SpecWork == InitWork /\ [][NextWork]_vars

\* ----------------------------------------- specification: creating
\* No bounty yet.  The payer "c" has sent none, one or two paid creation
\* requests in the current window that passed the rate limiter and were
\* refused for a missing title (the limiter counts a request before its
\* fields are looked at).  Creations with and without payment by "c", "C"
\* and "d", claims by "a", cancels, and the clock.
InitCreate ==
    /\ SUPABASE_KEY \in BOOLEAN
    /\ WALLET_PK = FALSE
    /\ bounties = EmptyMap
    /\ memUndefined = {}
    /\ \E n \in 0..RATE_LIMIT_MAX_CREATES :
          rateLimits = IF n = 0 THEN EmptyMap
                       ELSE rateKey("c", "create") :>
                               [count |-> n, windowStart |-> 1]
    /\ now = 1
    /\ ticks = 0
    /\ req = [s \in Slots |-> Idle]
    /\ nreq = 0
    /\ nsub = 0
    /\ transfers = <<>>
    /\ answers = <<>>
    /\ keep = 1
    /\ agents = EmptyMap
    /\ store = NewStore
    /\ pmap = NewMap
    /\ bountiesMemory = << >>
    /\ agentRows = EmptyMap

NextCreate ==
    \/ \E s \in Slots :
          \/ \E paid \in BOOLEAN, payer \in {"c", "C", "d"} :
                Create(s, paid, payer, 10000000, <<"kw">>)
          \/ ClaimStart(s, "a", 1)
          \/ ClaimSteps(s)
          \/ \E a \in {"c", "d"} : Cancel(s, a, 1)
          \/ Write(s)
    \/ \E d \in {1, RATE_LIMIT_WINDOW_MS} : Tick(d)

SpecCreate == InitCreate /\ [][NextCreate]_vars

\* =================================================================== claims
\* ------------------------------------------------------------------ C2
\* C2: in every reachable state every bounty has a claimant (claimedBy is
\* not null) if and only if its status is one of claimed, submitted,
\* payment_pending, completed.
C2_ClaimantIffHeld ==
    \A id \in DOMAIN bounties :
        (bounties[id].claimedBy # Null) <=>
        (bounties[id].status \in {"claimed", "submitted", "payment_pending",
                                  "completed"})

\* ------------------------------------------------------------------ C3
\* C3: in every reachable state a bounty's submissions list is non-empty if
\* and only if its status is one of submitted, payment_pending, completed.
C3_SubmissionsIffSubmitted ==
    \A id \in DOMAIN bounties :
        (Len(bounties[id].submissions) > 0) <=>
        (bounties[id].status \in {"submitted", "payment_pending", "completed"})

\* ------------------------------------------------------------------ C4
\* C4: once a bounty's status is payment_pending or completed, no step of a
\* claim request or of a submit request changes its status or its
\* submissions list.
C4_TerminalForClaimAndSubmit ==
    [][\A s \in DOMAIN req :
          (req[s].kind \in {"claim", "submit"} /\ req'[s] # req[s]) =>
          \A id \in DOMAIN bounties :
              bounties[id].status \in {"payment_pending", "completed"} =>
              /\ bounties'[id].status = bounties[id].status
              /\ bounties'[id].submissions = bounties[id].submissions]_vars

\* ------------------------------------------------------------------ C5
\* C5: every change of a bounty's status follows one of the edges
\* open->claimed, claimed->submitted, submitted->payment_pending,
\* submitted->completed, submitted->open, claimed->open, open->cancelled.
C5_AllowedTransitions ==
    [][\A id \in DOMAIN bounties :
          bounties'[id].status # bounties[id].status =>
          <<bounties[id].status, bounties'[id].status>> \in
              {<<"open", "claimed">>, <<"claimed", "submitted">>,
               <<"submitted", "payment_pending">>, <<"submitted", "completed">>,
               <<"submitted", "open">>, <<"claimed", "open">>,
               <<"open", "cancelled">>}]_vars

\* ------------------------------------------------------------------ C6
\* C6: a bounty, stored or in a handler's copy, is completed only when a
\* transfer for it was confirmed; an approve request marks its bounty object
\* completed only in the step in which its own transfer was confirmed; and
\* a step in which the payment fails (insufficient treasury, transfer
\* error) answers with that error and changes no bounty.
C6_PaymentGating ==
    /\ [](\A id \in DOMAIN bounties :
            bounties[id].status = "completed" =>
            \E i \in 1..Len(transfers) : transfers[i].bid = id)
    /\ [](\A s \in DOMAIN req :
            req[s].snap.status = "completed" =>
            \E i \in 1..Len(transfers) : transfers[i].bid = req[s].bid)
    /\ [][\A s \in DOMAIN req :
            (req'[s].kind = "approve" /\ req'[s].snap.status = "completed"
               /\ req[s].snap.status # "completed") =>
            /\ req[s].kind = "approve" /\ req[s].pc = "transfer"
            /\ transfers' = Append(transfers, [bid |-> req[s].bid,
                                               to |-> req[s].arg[1]])]_vars
    /\ [][\A id \in DOMAIN bounties :
            (~SUPABASE_KEY /\ bounties[id].status # "completed"
               /\ bounties'[id].status = "completed") =>
            \E s \in DOMAIN req :
                /\ req[s].kind = "approve" /\ req[s].bid = id
                /\ req[s].pc = "transfer"
                /\ transfers' = Append(transfers, [bid |-> id,
                                                   to |-> req[s].arg[1]])]_vars
    /\ [][\A s \in DOMAIN req :
            (req[s].kind = "approve" /\ req[s].pc \in {"balance", "transfer"}
               /\ req'[s].pc = "done") =>
            /\ bounties' = bounties
            /\ transfers' = transfers
            /\ Len(answers') > 0
            /\ Last(answers').kind = "approve"
            /\ Last(answers').resp \in {"InsufficientTreasury",
                                        "TransferFailed"}]_vars

\* A transfer failed and the bounty is still submitted and unpaid.
C6_Witness ==
    /\ Len(answers) > 0
    /\ Last(answers).kind = "approve"
    /\ Last(answers).resp = "TransferFailed"
    /\ Last(answers).bid \in DOMAIN bounties
    /\ bounties[Last(answers).bid].status = "submitted"
    /\ bounties[Last(answers).bid].payment = "none"
    /\ transfers = <<>>

\* ----------------------------------------------------------------- C10
\* C10: a claim request whose requester is the bounty's creator, compared
\* case-insensitively, is answered with a refusal and none of its steps
\* changes a bounty, whatever the bounty's status is.
C10_SelfDealing ==
    /\ [](\A i \in 1..Len(answers) :
            (answers[i].kind = "claim" /\ answers[i].bid \in DOMAIN bounties
               /\ toLowerCase(answers[i].addr) =
                  toLowerCase(bounties[answers[i].bid].creator)) =>
            answers[i].resp \in {"RateLimited", "Blocklisted", "PendingLimit",
                                 "SelfDeal"})
    /\ [][\A s \in DOMAIN req :
            (req[s].kind = "claim" /\ req[s].bid \in DOMAIN bounties
               /\ toLowerCase(req[s].addr) =
                  toLowerCase(bounties[req[s].bid].creator)
               /\ req'[s] # req[s]) =>
            /\ bounties' = bounties
            /\ req'[s].pc \in {"get", "done"}]_vars

\* The creator, in another spelling of its address, was refused a claim on
\* its own bounty while another identity had work submitted on it.
C10_Witness ==
    /\ Len(answers) > 0
    /\ Last(answers).kind = "claim"
    /\ Last(answers).resp = "SelfDeal"
    /\ Last(answers).bid \in DOMAIN bounties
    /\ bounties[Last(answers).bid].creator # Last(answers).addr
    /\ bounties[Last(answers).bid].status = "submitted"

C7_AsStated ==
    [][((\E s \in DOMAIN req : req[s].kind = "claim" /\ req'[s].pc = "done")
          \/ (nreq' = nreq + 1 /\ req' = req)) =>
       LET x == Last(answers')
           a == toLowerCase(x.addr)
           held == {id \in DOMAIN bounties :
                      bounties[id].claimedBy = a /\ bounties[id].status = "claimed"}
       IN x.kind = "claim" =>
          /\ Cardinality(held) = MAX_PENDING_CLAIMS =>
                (x.resp = "PendingLimit" /\ x.info[1] = held)
          /\ (/\ Cardinality(held) = MAX_PENDING_CLAIMS - 1
              /\ Len(answers) > 0
              /\ Last(answers).kind = "submit"
              /\ Last(answers).resp = "ok"
              /\ toLowerCase(Last(answers).addr) = a
              /\ bounties[x.bid].status = "open"
              /\ toLowerCase(bounties[x.bid].creator) # a) =>
                x.resp = "ok"]_vars

\* C7 amended: a claim request that the rate limiter and the blocklist let
\* through to the admission check while its identity holds exactly
\* MAX_PENDING_CLAIMS claimed bounties is refused there with the list of
\* those bounties and changes nothing; when the identity's successful submit
\* was the last request answered and left it with one claimed bounty fewer,
\* the admission check lets the claim through, and a claim let through on an
\* open bounty its requester did not create is not refused by any later
\* guard: it goes on to the conditional write or is granted.
C7_AdmissionCeiling ==
    /\ [][\A s \in DOMAIN req :
            (req[s].kind = "claim" /\ req[s].pc = "scan" /\ req'[s] # req[s]) =>
            LET a == toLowerCase(req[s].addr)
                held == {id \in DOMAIN bounties :
                           /\ bounties[id].claimedBy = a
                           /\ bounties[id].status = "claimed"}
            IN /\ Cardinality(held) = MAX_PENDING_CLAIMS =>
                     /\ req'[s].pc = "done"
                     /\ Last(answers').kind = "claim"
                     /\ Last(answers').resp = "PendingLimit"
                     /\ Last(answers').info[1] = held
                     /\ bounties' = bounties
               /\ (/\ Cardinality(held) = MAX_PENDING_CLAIMS - 1
                   /\ Len(answers) > 0
                   /\ Last(answers).kind = "submit"
                   /\ Last(answers).resp = "ok"
                   /\ toLowerCase(Last(answers).addr) = a) =>
                     req'[s].pc = "get"]_vars
    /\ [][\A s \in DOMAIN req :
            (/\ req[s].kind = "claim"
             /\ req[s].pc \in {"get", "atomicRead", "atomicWrite"}
             /\ req'[s] # req[s]
             /\ bounties[req[s].bid].status = "open"
             /\ toLowerCase(bounties[req[s].bid].creator) #
                   toLowerCase(req[s].addr)) =>
            \/ req'[s].pc \in {"atomicRead", "atomicWrite"}
            \/ /\ req'[s].pc = "done"
               /\ Last(answers').resp = "ok"
               /\ bounties'[req[s].bid].status = "claimed"
               /\ bounties'[req[s].bid].claimedBy = toLowerCase(req[s].addr)]_vars

\* The identity was refused at the ceiling, submitted one of its bounties
\* and was granted the open bounty by its next claim.
C7_Witness ==
    /\ Len(answers) = 3
    /\ answers[1].kind = "claim" /\ answers[1].resp = "PendingLimit"
    /\ answers[1].info[1] = 1..MAX_PENDING_CLAIMS
    /\ answers[2].kind = "submit" /\ answers[2].resp = "ok"
    /\ answers[3].kind = "claim" /\ answers[3].resp = "ok"
    /\ answers[3].bid = MAX_PENDING_CLAIMS + 1
    /\ bounties[answers[2].bid].status = "submitted"
    /\ bounties[MAX_PENDING_CLAIMS + 1].claimedBy = "a"
    /\ Cardinality({id \in DOMAIN bounties :
                      bounties[id].claimedBy = "a"
                      /\ bounties[id].status = "claimed"}) = MAX_PENDING_CLAIMS
    /\ nreq = 3

\* ------------------------------------------------------------------ C8
\* C8: in every reachable state no identity is the claimant of more than
\* MAX_PENDING_CLAIMS bounties whose status is claimed.
C8_HoardingBound ==
    \A a \in {bounties[id].claimedBy : id \in DOMAIN bounties} \ {Null} :
        Cardinality({id \in DOMAIN bounties :
                       bounties[id].claimedBy = a
                       /\ bounties[id].status = "claimed"}) <= MAX_PENDING_CLAIMS

\* ------------------------------------------------------------------ C9
\* C9: a check of a key (identity, claim) that has no entry, or whose window
\* has elapsed (now - windowStart > 60000), is accepted and starts a window
\* at now with count 1; inside the window a check is accepted while fewer
\* than 3 checks were counted and counts one more; once 3 were counted the
\* check is rejected and the entry stays as it is.  So the first 3 checks of
\* a window are accepted and the 4th is rejected.
C9_RateWindow ==
    /\ [](\A k \in DOMAIN rateLimits :
            k[2] = "claim" => rateLimits[k].count \in 1..3)
    /\ [][(nreq' = nreq + 1 /\ Last(answers').kind = "claim") =>
          LET x == Last(answers')
              key == <<toLowerCase(x.addr), "claim">>
              fresh == key \notin DOMAIN rateLimits
          IN IF fresh \/ now - rateLimits[key].windowStart > 60000
             THEN /\ x.resp = "ok"
                  /\ rateLimits'[key] = [count |-> 1, windowStart |-> now]
             ELSE IF rateLimits[key].count < 3
             THEN /\ x.resp = "ok"
                  /\ rateLimits'[key] =
                        [count |-> rateLimits[key].count + 1,
                         windowStart |-> rateLimits[key].windowStart]
             ELSE /\ x.resp = "RateLimited"
                  /\ rateLimits' = rateLimits]_vars

\* The 4th check of a window was rejected, the window elapsed, and the next
\* check of the key was accepted into a new window with count 1.
C9_Witness ==
    /\ Len(answers) = 2
    /\ answers[1].kind = "claim" /\ answers[1].resp = "RateLimited"
    /\ answers[2].kind = "claim" /\ answers[2].resp = "ok"
    /\ toLowerCase(answers[1].addr) = toLowerCase(answers[2].addr)
    /\ nreq = 5
    /\ now > RATE_LIMIT_WINDOW_MS + 1
    /\ rateLimits[<<toLowerCase(answers[2].addr), "claim">>] =
          [count |-> 1, windowStart |-> now]


\* ----------------------------------------------------------------- C11
\* C11: no bounty, stored or held as a copy by a request in flight, names
\* as its claimant the identity that created it (addresses compared as
\* identities, that is case-insensitively), in every state of every
\* interleaving of the lifecycle operations.
C11_CreatorNotClaimant ==
    /\ \A id \in DOMAIN bounties :
          bounties[id].claimedBy # Null =>
          toLowerCase(bounties[id].claimedBy) # toLowerCase(bounties[id].creator)
    /\ \A s \in DOMAIN req :
          (req[s].snap # NoDoc /\ req[s].snap.claimedBy # Null) =>
          toLowerCase(req[s].snap.claimedBy) # toLowerCase(req[s].snap.creator)

\* A bounty whose creator spelled its address in capitals is held by
\* another identity, and the creator's own claim on it, spelled in small
\* letters, has just been refused.
C11_Witness ==
    /\ Len(answers) > 0
    /\ Last(answers).kind = "claim"
    /\ Last(answers).resp = "SelfDeal"
    /\ Last(answers).bid \in DOMAIN bounties
    /\ bounties[Last(answers).bid].creator = "C"
    /\ Last(answers).addr = "c"
    /\ bounties[Last(answers).bid].status = "claimed"
    /\ bounties[Last(answers).bid].claimedBy = "a"

\* ----------------------------------------------------------------- C12
\* C12: a reject (with the internal key) or a release (by the claimant) of
\* a bounty in status submitted leaves in the handler's bounty object the
\* status open, no claimant, no claimedAt, no submissions, and one more
\* record in the matching audit list, holding the previous claimant and
\* the previous submissions, the other list being as it was; the write of
\* the handler stores that object and answers with success.  A claim that
\* then reaches its atomic step on such a reopened bounty, by an identity
\* other than the creator, succeeds: the bounty is claimed by that identity.
C12_RoundTrip ==
    /\ [][\A s \in DOMAIN req :
            (/\ Free(s)
             /\ req'[s].kind \in {"reject", "release"}
             /\ req'[s].pc = "write"
             /\ bounties[req'[s].bid].status = "submitted") =>
            LET old == bounties[req'[s].bid]
                new == IF SUPABASE_KEY THEN req'[s].snap
                       ELSE bounties'[req'[s].bid]
            IN /\ new.status = "open"
               /\ new.claimedBy = Null
               /\ new.claimedAt = NoTime
               /\ new.submissions = <<>>
               /\ new.creator = old.creator
               /\ IF req'[s].kind = "reject"
                  THEN /\ new.rejections = Append(old.rejections,
                              [previousClaimant |-> old.claimedBy,
                               previousSubmissions |-> old.submissions])
                       /\ new.releases = old.releases
                  ELSE /\ Len(new.releases) = Len(old.releases) + 1
                       /\ SubSeq(new.releases, 1, Len(old.releases)) = old.releases
                       /\ Last(new.releases).releasedBy = old.claimedBy
                       /\ Last(new.releases).submissions = old.submissions
                       /\ new.rejections = old.rejections]_vars
    /\ [][\A s \in DOMAIN req :
            (/\ req[s].kind \in {"reject", "release"}
             /\ req[s].pc = "write"
             /\ req'[s] # req[s]) =>
            /\ bounties'[req[s].bid] = Obj(s)
            /\ Last(answers').kind = req[s].kind
            /\ Last(answers').resp = "ok"]_vars
    /\ [][\A s \in DOMAIN req :
            (/\ req[s].kind = "claim"
             /\ req[s].pc = (IF SUPABASE_KEY THEN "atomicWrite" ELSE "get")
             /\ req'[s] # req[s]
             /\ req[s].bid \in DOMAIN bounties
             /\ bounties[req[s].bid].status = "open"
             /\ Len(bounties[req[s].bid].rejections)
                  + Len(bounties[req[s].bid].releases) > 0
             /\ toLowerCase(req[s].addr) #
                  toLowerCase(bounties[req[s].bid].creator)) =>
            /\ bounties'[req[s].bid].status = "claimed"
            /\ bounties'[req[s].bid].claimedBy = toLowerCase(req[s].addr)
            /\ bounties'[req[s].bid].submissions = <<>>
            /\ Last(answers').kind = "claim"
            /\ Last(answers').resp = "ok"]_vars

\* A bounty whose submitted work was rejected once, the record naming the
\* previous claimant and holding its submission, has been claimed again by
\* another identity, which was answered with success.
C12_Witness ==
    /\ Len(answers) > 0
    /\ Last(answers).kind = "claim"
    /\ Last(answers).resp = "ok"
    /\ Last(answers).addr = "b"
    /\ Last(answers).bid \in DOMAIN bounties
    /\ LET b == bounties[Last(answers).bid] IN
       /\ b.status = "claimed"
       /\ b.claimedBy = "b"
       /\ b.submissions = <<>>
       /\ Len(b.rejections) = 1
       /\ b.rejections[1].previousClaimant = "a"
       /\ Len(b.rejections[1].previousSubmissions) = 1

\* ----------------------------------------------------------------- C13
\* Is the sender of these credentials the creator of b (its signature), a
\* moderator, or the holder of the internal key?
C13_Authorised(b, internalKey, modWallet, creatorSignature) ==
    \/ internalKey
    \/ modWallet # Null /\ isMod(modWallet)
    \/ creatorSignature # Null /\ b.creator # Null
          /\ toLowerCase(creatorSignature) = toLowerCase(b.creator)

\* C13: an approve request gets past the guards of the handler, towards
\* payment_pending or completed, only when it comes from the bounty's
\* creator, a moderator or the holder of the internal key; an approve
\* request on a submitted bounty from anyone else is answered with
\* Authentication required and changes no bounty.
C13_ApprovalAuthorization ==
    [][nreq' = nreq + 1 =>
         /\ \A s \in DOMAIN req :
               (Free(s) /\ req'[s].kind = "approve") =>
               C13_Authorised(bounties[req'[s].bid], req'[s].arg[2],
                              req'[s].addr, req'[s].arg[3])
         /\ (/\ req' = req
             /\ Len(answers') > 0
             /\ Last(answers').kind = "approve"
             /\ Last(answers').bid \in DOMAIN bounties
             /\ bounties[Last(answers').bid].status = "submitted"
             /\ ~C13_Authorised(bounties[Last(answers').bid],
                                Last(answers').info[1], Last(answers').addr,
                                Last(answers').info[2])) =>
            /\ Last(answers').resp = "AuthRequired"
            /\ bounties' = bounties]_vars

\* ----------------------------------------------------------------- C14
\* Do these credentials name the claimant of b as their sender?
C14_ByClaimant(b, modWallet, creatorSignature) ==
    /\ b.claimedBy # Null
    /\ \/ modWallet # Null /\ toLowerCase(modWallet) = toLowerCase(b.claimedBy)
       \/ creatorSignature # Null
            /\ toLowerCase(creatorSignature) = toLowerCase(b.claimedBy)

\* C14: an approve request sent by the bounty's claimant never gets past
\* the guards of the handler: it is refused, the bounty stays as it was and
\* no payment is executed or queued.
C14_ConflictOfInterest ==
    [][nreq' = nreq + 1 =>
         /\ \A s \in DOMAIN req :
               (Free(s) /\ req'[s].kind = "approve") =>
               ~C14_ByClaimant(bounties[req'[s].bid], req'[s].addr,
                               req'[s].arg[3])
         /\ (/\ req' = req
             /\ Len(answers') > 0
             /\ Last(answers').kind = "approve"
             /\ Last(answers').bid \in DOMAIN bounties
             /\ bounties[Last(answers').bid].status = "submitted"
             /\ C14_ByClaimant(bounties[Last(answers').bid],
                               Last(answers').addr, Last(answers').info[2])) =>
            /\ bounties' = bounties
            /\ transfers' = transfers]_vars

\* ----------------------------------------------------------------- C15
\* C15: a cancel request gets past the guards of the handler, and its write
\* then stores the status cancelled, if and only if its requester is the
\* bounty's creator (as an identity, whatever the spelling recorded at
\* creation) and the status is open; a request that is refused changes no
\* bounty.
C15_CancelGuard ==
    /\ [][nreq' = nreq + 1 =>
            /\ \A s \in DOMAIN req :
                  (Free(s) /\ req'[s].kind = "cancel") =>
                  /\ toLowerCase(req'[s].addr) =
                        toLowerCase(bounties[req'[s].bid].creator)
                  /\ bounties[req'[s].bid].status = "open"
            /\ (/\ req' = req
                /\ Len(answers') > 0
                /\ Last(answers').kind = "cancel"
                /\ Last(answers').bid \in DOMAIN bounties) =>
               /\ bounties' = bounties
               /\ ~(/\ toLowerCase(Last(answers').addr) =
                          toLowerCase(bounties[Last(answers').bid].creator)
                    /\ bounties[Last(answers').bid].status = "open")]_vars
    /\ [][\A s \in DOMAIN req :
            (req[s].kind = "cancel" /\ req[s].pc = "write" /\ req'[s] # req[s]) =>
            bounties'[req[s].bid].status = "cancelled"]_vars

\* ----------------------------------------------------------------- C16
\* C16: once the stored status of a bounty is cancelled no step changes it
\* again, not even the write of a request that read the bounty before the
\* cancel; and a bounty's stored status becomes cancelled only in a step
\* from the status open.
C16_CancelledTerminal ==
    [][\A id \in DOMAIN bounties :
          /\ bounties[id].status = "cancelled" =>
             bounties'[id].status = "cancelled"
          /\ (bounties[id].status # "cancelled"
                /\ bounties'[id].status = "cancelled") =>
             bounties[id].status = "open"]_vars

\* ----------------------------------------------------------------- C17
\* C17: autograde answers score 100 and passed for a bounty without
\* requirements; for a bounty of n >= 1 requirements of which the
\* submission meets m it answers the score 100 * m / n rounded to the
\* nearest integer (a half upwards) and passed exactly when that score is
\* at least 90; so 1 met of 2 is score 50 and not passed.
C17_GraderScore ==
    \A i \in 1..Len(answers) :
        answers[i].kind = "autograde" =>
        LET b == bounties[answers[i].bid]
            n == Len(b.requirements)
            m == Cardinality({j \in 1..n :
                     requirementMet(b.requirements[j], answers[i].info[1],
                                    answers[i].info[2])})
            grade == answers[i].info[3]
        IN /\ n = 0 => grade.score = 100 /\ grade.passed
           /\ n >= 1 => /\ grade.score = (200 * m + n) \div (2 * n)
                        /\ grade.passed = (grade.score >= 90)
           /\ (n = 2 /\ m = 1) => grade.score = 50 /\ ~grade.passed

\* ----------------------------------------------------------------- C18
\* C18: the step in which a submit request reads the bounty either ends
\* with the refusal of one of the guards before the grader (bounty
\* missing, requester not the claimant, no submission, work time, proof,
\* size), or, when the grade's score is below 20 and neither the text nor
\* the proof carries a URL, with the automatic rejection and no bounty
\* changed, or, in every other case and whatever the score, with the
\* submission appended to the handler's bounty object together with its
\* score and the status submitted.
C18_GraderAdvisory ==
    [][\A s \in DOMAIN req :
          (req[s].kind = "submit" /\ req[s].pc = "read" /\ req'[s] # req[s]) =>
          \/ /\ req'[s] = Idle
             /\ Last(answers').kind = "submit"
             /\ Last(answers').resp \in
                   {"NotFound", "Unauthorized", "SubmissionRequired", "TooFast",
                    "ProofRequired", "TooLarge"}
             /\ bounties' = bounties
          \/ LET b == bounties[req[s].bid]
                 text == req[s].arg.submission
                 proof == req[s].arg.proof
                 grade == autograde(b, text, proof)
                 new == IF SUPABASE_KEY THEN req'[s].snap
                        ELSE bounties'[req[s].bid]
             IN IF grade.score < 20 /\ ~includesHttp(text)
                      /\ ~(proof # Null /\ includesHttp(proof))
                THEN /\ req'[s] = Idle
                     /\ Last(answers').kind = "submit"
                     /\ Last(answers').resp = "AutoRejected"
                     /\ bounties' = bounties
                ELSE /\ req'[s].pc = "write"
                     /\ new.status = "submitted"
                     /\ Len(new.submissions) = Len(b.submissions) + 1
                     /\ SubSeq(new.submissions, 1, Len(b.submissions)) =
                           b.submissions
                     /\ Last(new.submissions).content = text
                     /\ Last(new.submissions).proof = proof
                     /\ Last(new.submissions).autogradeScore = grade.score]_vars

\* A text without any link and without a proof, meeting one of two
\* requirements, was graded 50: it is on the bounty, which is submitted.
C18_Witness ==
    /\ Len(answers) > 0
    /\ Last(answers).kind = "submit"
    /\ Last(answers).resp = "ok"
    /\ LET b == bounties[1] IN
       /\ b.status = "submitted"
       /\ Len(b.submissions) > 0
       /\ Last(b.submissions).autogradeScore = 50
       /\ Last(b.submissions).content = "text"
       /\ Last(b.submissions).proof = Null

\* ----------------------------------------------------------------- C19
\* C19: the example flow, step by step.  A bounty created with the reward
\* 25000000 is open.  A claim answered with success, by an identity other
\* than the creator, leaves the bounty claimed by it with claimedAt the
\* time of the claim.  The claimant's submit with a proof URL, eleven
\* minutes or more after claimedAt, leaves the handler's bounty object
\* submitted, the submission carrying the grader's score.  The confirmed
\* transfer of an approve request signed by the creator leaves the object
\* completed with its payment record, and the registered claimant's
\* reputation is higher by exactly 10 and its completedBounties by exactly
\* 1, no other agent being touched; the write of each handler stores its
\* object.
C19_ExampleFlow ==
    /\ [][(/\ nreq' = nreq + 1
           /\ req' = req
           /\ Last(answers').kind = "create"
           /\ Last(answers').resp = "ok") =>
          LET b == bounties'[Last(answers').bid] IN
          /\ Last(answers').bid \notin DOMAIN bounties
          /\ b.status = "open"
          /\ b.reward = 25000000
          /\ b.claimedBy = Null
          /\ b.submissions = <<>>]_vars
    /\ [][\A s \in DOMAIN req :
            (/\ req[s].kind = "claim"
             /\ req'[s] = Idle
             /\ Last(answers').kind = "claim"
             /\ Last(answers').resp = "ok") =>
            LET b == bounties'[req[s].bid] IN
            /\ b.status = "claimed"
            /\ b.claimedBy = toLowerCase(req[s].addr)
            /\ toLowerCase(b.creator) # b.claimedBy
            /\ b.claimedAt = now]_vars
    /\ [][\A s \in DOMAIN req :
            (/\ req[s].kind = "submit" /\ req[s].pc = "read"
             /\ req'[s] # req[s]
             /\ req[s].bid \in DOMAIN bounties
             /\ bounties[req[s].bid].status = "claimed"
             /\ bounties[req[s].bid].claimedBy = toLowerCase(req[s].addr)
             /\ now - bounties[req[s].bid].claimedAt >= ElevenMinutes
             /\ req[s].arg.submission # ""
             /\ contentLength(req[s].arg.submission) <= MAX_SUBMISSION_LENGTH
             /\ req[s].arg.proof # Null
             /\ includesHttp(req[s].arg.proof)) =>
            LET b == bounties[req[s].bid]
                new == IF SUPABASE_KEY THEN req'[s].snap
                       ELSE bounties'[req[s].bid]
            IN /\ req'[s].pc = "write"
               /\ new.status = "submitted"
               /\ new.claimedBy = b.claimedBy
               /\ Len(new.submissions) = Len(b.submissions) + 1
               /\ Last(new.submissions).proof = req[s].arg.proof
               /\ Last(new.submissions).submittedAt = now
               /\ Last(new.submissions).autogradeScore =
                     autograde(b, req[s].arg.submission, req[s].arg.proof).score]_vars
    /\ [][\A s \in DOMAIN req :
            (/\ req[s].kind = "approve" /\ req[s].pc = "transfer"
             /\ req'[s] # req[s]
             /\ req'[s].pc = "write"
             /\ req[s].arg[3] # Null
             /\ toLowerCase(req[s].arg[3]) = toLowerCase(Obj(s).creator)) =>
            LET b == Obj(s)
                new == IF SUPABASE_KEY THEN req'[s].snap
                       ELSE bounties'[req[s].bid]
            IN /\ new.status = "completed"
               /\ new.payment = "paid"
               /\ transfers' = Append(transfers,
                                      [bid |-> req[s].bid, to |-> req[s].arg[1]])
               /\ DOMAIN agents' = DOMAIN agents
               /\ \A a \in DOMAIN agents :
                     IF a = b.claimedBy
                     THEN /\ agents'[a].reputation = agents[a].reputation + 10
                          /\ agents'[a].completedBounties =
                                agents[a].completedBounties + 1
                     ELSE agents'[a] = agents[a]]_vars
    /\ [][\A s \in DOMAIN req :
            (/\ req[s].kind \in {"submit", "approve"} /\ req[s].pc = "write"
             /\ req'[s] # req[s]) =>
            /\ bounties'[req[s].bid] = Obj(s)
            /\ agents' = agents]_vars

\* The flow has run to its end: the bounty of 25 USDC, claimed by the
\* registered agent and submitted eleven minutes later with a proof URL, is
\* completed and paid after the creator's approval, one transfer went to
\* the claimant, and the agent has reputation 10 and one completed bounty.
C19_Witness ==
    /\ 1 \in DOMAIN bounties
    /\ "a" \in DOMAIN agents
    /\ bounties[1].status = "completed"
    /\ bounties[1].payment = "paid"
    /\ bounties[1].reward = 25000000
    /\ bounties[1].claimedBy = "a"
    /\ Len(bounties[1].submissions) = 1
    /\ bounties[1].submissions[1].submittedAt - bounties[1].claimedAt
          = ElevenMinutes
    /\ bounties[1].submissions[1].proof = "http://proof"
    /\ transfers = <<[bid |-> 1, to |-> "a"]>>
    /\ agents["a"].reputation = 10
    /\ agents["a"].completedBounties = 1
    /\ Len(answers) > 0
    /\ Last(answers).kind = "approve"
    /\ Last(answers).resp = "ok"
    /\ Last(answers).info = <<>>

\* ----------------------------------------------------------------- C20
\* C20: the readiness gate.  Whenever a request passes the middleware and
\* its handler runs, the initial load of every map of the store has
\* settled, whatever the order of the map(collection), ready() and
\* middleware() calls was.
C20_ReadinessGate == \A unsettled \in store.handled : unsettled = {}

\* ----------------------------------------------------------------- C21
\* C21: fire-and-forget writes.  A call of set(key, value) or delete(key)
\* has changed the in-memory map when it returns (the key holds the value,
\* or is gone), has thrown nothing, and has left the remote rows as they
\* were, its request (sent when the key is configured, and for a delete
\* only when the key was there) still being in flight.  When a remote write
\* fails, the in-memory map stays as it is and no error reaches the caller.
C21_FireAndForget ==
    /\ [][pmap'.issued = pmap.issued + 1 =>
          LET call == pmap'.last
              mine == {f \in pmap'.fetches : f.n = pmap'.issued}
          IN /\ pmap'.thrown = pmap.thrown
             /\ pmap'.rows = pmap.rows
             /\ \A c \in (DOMAIN pmap.cache \cup DOMAIN pmap'.cache) \ {call.key} :
                   /\ c \in DOMAIN pmap.cache /\ c \in DOMAIN pmap'.cache
                   /\ pmap'.cache[c] = pmap.cache[c]
             /\ pmap'.fetches = pmap.fetches \cup mine
             /\ IF call.op = "set"
                THEN /\ call.key \in DOMAIN pmap'.cache
                     /\ call.result = "this"
                     /\ mine = IF SUPABASE_KEY
                               THEN {[n |-> pmap'.issued, method |-> "POST",
                                      item_key |-> call.key,
                                      data |-> pmap'.cache[call.key]]}
                               ELSE {}
                ELSE /\ call.key \notin DOMAIN pmap'.cache
                     /\ call.result = (call.key \in DOMAIN pmap.cache)
                     /\ mine = IF SUPABASE_KEY /\ call.result
                               THEN {[n |-> pmap'.issued, method |-> "DELETE",
                                      item_key |-> call.key, data |-> Null]}
                               ELSE {}]_vars
    /\ [][pmap'.failures = pmap.failures + 1 =>
          /\ pmap'.cache = pmap.cache
          /\ pmap'.rows = pmap.rows
          /\ pmap'.thrown = pmap.thrown
          /\ pmap'.last = pmap.last]_vars
    /\ [](pmap.thrown = 0)

\* A set whose remote write failed: the key holds the value in memory, the
\* remote store has no row for it, nothing is in flight and nothing was
\* thrown.
C21_Witness ==
    /\ pmap.failures = 1
    /\ pmap.fetches = {}
    /\ pmap.last.op = "set"
    /\ pmap.last.key \in DOMAIN pmap.cache
    /\ pmap.last.key \notin DOMAIN pmap.rows
    /\ pmap.thrown = 0

\* ----------------------------------------------------------------- C22
\* C22: eventual durability.  With the remote store configured, when no
\* remote write has failed and every request sent has settled, the remote
\* store holds for every key exactly the value held in memory, and no row
\* for a key absent from memory.
C22_EventualDurability ==
    (SUPABASE_KEY /\ pmap.failures = 0 /\ pmap.fetches = {}) =>
        pmap.rows = pmap.cache

\* ----------------------------------------------------------------- C23
\* C23: write-through consistency of bounties.  With the remote store
\* configured, at the answer of a successful create, claim, submit,
\* approve, reject, release or cancel the copy of the bounty in
\* bountiesMemory equals the document of the remote store, and a read that
\* falls back to memory answers with the status and the claimant the
\* remote document has.
C23_WriteThrough ==
    (SUPABASE_KEY /\ Len(answers) > 0) =>
       LET a == Last(answers) IN
       /\ (/\ a.kind \in {"create", "claim", "submit", "approve", "reject",
                          "release", "cancel"}
           /\ a.resp = "ok") =>
             /\ a.bid \in DOMAIN bountiesMemory
             /\ bountiesMemory[a.bid] = bounties[a.bid]
       /\ (a.kind = "get" /\ a.bid \in DOMAIN bounties) =>
             /\ a.resp = "ok"
             /\ a.info = <<bounties[a.bid].status, bounties[a.bid].claimedBy>>

\* ----------------------------------------------------------------- C24
\* C24: the audit history is append-only.  Every step of every lifecycle
\* operation leaves each bounty's rejections and releases lists with the
\* records they had, unchanged and in place; a step may only append.
C24_AuditAppendOnly ==
    [][\A id \in DOMAIN bounties :
          /\ id \in DOMAIN bounties'
          /\ Len(bounties'[id].rejections) >= Len(bounties[id].rejections)
          /\ SubSeq(bounties'[id].rejections, 1, Len(bounties[id].rejections))
                = bounties[id].rejections
          /\ Len(bounties'[id].releases) >= Len(bounties[id].releases)
          /\ SubSeq(bounties'[id].releases, 1, Len(bounties[id].releases))
                = bounties[id].releases]_vars

\* ----------------------------------------------------------------- C25
\* C25: the claim error taxonomy.  At the answer of a claim request: the
\* answer is NotFound exactly when the request's read found no bounty
\* under the id; a request that comes back from a read of the bounty with
\* a status other than open is answered InvalidState; and Conflict is the
\* answer only of a request whose conditional write matched no row, and
\* then it names the claimant the bounty has.
C25_ClaimErrors ==
    [][\A s \in DOMAIN req :
          (/\ req[s].kind = "claim"
           /\ req'[s] = Idle
           /\ Len(answers') > 0
           /\ Last(answers').kind = "claim") =>
          LET a == Last(answers') IN
          /\ (a.resp = "NotFound") <=>
                (req[s].pc = "get" /\ req[s].bid \notin DOMAIN bounties)
          /\ (req[s].pc = "reread" /\ req[s].arg \in {<<"not open">>, <<"fallback">>})
                => a.resp = "NotOpen"
          /\ (a.resp = "Conflict") =>
                /\ req[s].pc = "reread"
                /\ req[s].arg = <<"race">>
                /\ a.info = <<bounties[req[s].bid].claimedBy>>]_vars

\* ----------------------------------------------------------------- C26
\* C26: claimant-only mutation.  A step of a submit, editSubmission,
\* deleteSubmission or release request changes a bounty only when the
\* requester is the claimant the bounty has at that step; and a request of
\* these kinds whose read finds the bounty with another claimant (or none)
\* is answered Unauthorized and changes nothing.
C26_ClaimantOnly ==
    [][\A s \in DOMAIN req :
          LET kinds == {"submit", "edit", "delete", "release"}
              r == IF req[s].kind \in kinds THEN req[s] ELSE req'[s]
              reads == \/ req[s].kind = "submit" /\ req[s].pc = "read"
                       \/ req[s].kind = "idle" /\ r.kind \in kinds \ {"submit"}
          IN (r.kind \in kinds /\ req'[s] # req[s] /\ r.bid \in DOMAIN bounties) =>
             /\ bounties'[r.bid] # bounties[r.bid] =>
                   bounties[r.bid].claimedBy = toLowerCase(r.addr)
             /\ (/\ reads
                 /\ r.addr # Null
                 /\ bounties[r.bid].claimedBy # toLowerCase(r.addr)) =>
                   /\ bounties' = bounties
                   /\ req'[s] = Idle
                   /\ Len(answers') > 0
                   /\ Last(answers').kind = r.kind
                   /\ Last(answers').resp = "Unauthorized"]_vars

\* ----------------------------------------------------------------- C27
\* C27: the minimum work time.  When the claimant's submit, carrying a
\* submission, reads a bounty with a reward above 20000000 units: if less
\* than ten minutes have passed since claimedAt the request is answered
\* TooFast with the remaining wait in whole minutes (rounded up), and the
\* bounty stays claimed with no submission added; if ten minutes or more
\* have passed the request is not answered TooFast.
C27_MinimumWorkTime ==
    [][\A s \in DOMAIN req :
          (/\ req[s].kind = "submit" /\ req[s].pc = "read"
           /\ req'[s] # req[s]
           /\ req[s].bid \in DOMAIN bounties
           /\ bounties[req[s].bid].reward > 20000000
           /\ bounties[req[s].bid].claimedBy = toLowerCase(req[s].addr)
           /\ req[s].arg.submission # "") =>
          LET b == bounties[req[s].bid]
              elapsed == now - b.claimedAt
          IN IF elapsed < 10 * 60 * 1000
             THEN /\ req'[s] = Idle
                  /\ Last(answers').kind = "submit"
                  /\ Last(answers').resp = "TooFast"
                  /\ Last(answers').info
                        = <<(10 * 60 * 1000 - elapsed + 59999) \div 60000>>
                  /\ bounties' = bounties
                  /\ b.status = "claimed"
                  /\ b.submissions = <<>>
                  /\ nsub' = nsub
             ELSE \/ req'[s] # Idle
                  \/ Last(answers').resp # "TooFast"]_vars

\* A submit one millisecond short of ten minutes after the claim of a
\* bounty of 25 USDC was answered TooFast with one minute to wait; the
\* bounty is claimed and has no submission.
C27_Witness ==
    /\ Len(answers) > 0
    /\ Last(answers).kind = "submit"
    /\ Last(answers).resp = "TooFast"
    /\ Last(answers).info = <<1>>
    /\ bounties[1].reward = 25000000
    /\ bounties[1].status = "claimed"
    /\ bounties[1].claimedBy = "a"
    /\ now - bounties[1].claimedAt = 10 * 60 * 1000 - 1
    /\ bounties[1].submissions = <<>>

\* ----------------------------------------------------------------- C28
\* C28: reputation changes only on completion.  The first registration of
\* an address sets its reputation and completedBounties to 0; afterwards
\* every step either leaves both counters of a registered address as they
\* are, or adds exactly 10 and 1 while an approve request marks a bounty
\* claimed by that address completed.  No step, a registration of the same
\* address included, lowers or resets them.
C28_ReputationOnlyOnCompletion ==
    [][/\ \A a \in DOMAIN agents' \ DOMAIN agents :
             /\ agents'[a].reputation = 0
             /\ agents'[a].completedBounties = 0
       /\ \A a \in DOMAIN agents :
             /\ a \in DOMAIN agents'
             /\ \/ /\ agents'[a].reputation = agents[a].reputation
                   /\ agents'[a].completedBounties = agents[a].completedBounties
                \/ /\ agents'[a].reputation = agents[a].reputation + 10
                   /\ agents'[a].completedBounties
                         = agents[a].completedBounties + 1
                   /\ \E s \in DOMAIN req :
                         /\ req[s].kind = "approve" /\ req[s].pc = "transfer"
                         /\ req'[s].pc = "write"
                         /\ Obj(s).claimedBy = a
                         /\ Obj(s).status # "completed"
                         /\ (IF SUPABASE_KEY THEN req'[s].snap
                             ELSE bounties'[req[s].bid]).status = "completed"]_vars

C31_Accepted(k) ==
    {i \in 1..Len(answers) :
        /\ rateKey(answers[i].addr, answers[i].kind) = k
        /\ answers[i].resp = "ok"}

C31_InWindow(k, w) == {i \in C31_Accepted(k) : answers[i].info[3] = w}

C31_Between(k, from, to) ==
    {i \in C31_Accepted(k) : answers[i].info[2] \in from..to}

C31_Keys == {rateKey(c[1], c[2]) : c \in CheckInputs}

C32_RetryAfter ==
    [][(nreq' = nreq + 1 /\ Last(answers').resp = "RateLimited") =>
          LET x == Last(answers')
              key == rateKey(x.addr, x.kind)
          IN /\ key \in DOMAIN rateLimits
             /\ x.info[1] = Ceil(rateLimits[key].windowStart + 60000 - now, 1000)
             /\ x.info[1] >= 1
             /\ x.info[1] <= 60
             /\ rateLimits' = rateLimits]_vars

\* ----------------------------------------------------------------- C39
\* The table that the first i calls of the history leave in a run with the
\* same calls at the same times and no sweep at all.
RECURSIVE C39_NoSweep(_)
C39_NoSweep(i) ==
    IF i = 0 THEN EmptyMap
    ELSE checkRateLimit(C39_NoSweep(i - 1), answers[i].info[2],
                        answers[i].addr, answers[i].kind).table

\* C39: the sweep removes the entries with now - windowStart > 2 x window
\* width and no other, leaving the rest as they are; and every call of
\* checkRateLimit, whatever sweeps ran before it, was answered with the
\* allowed and retryAfter that the same call gets in the run without sweeps.
C39_SweepTransparency ==
    /\ [](\A i \in 1..Len(answers) :
            LET rc == checkRateLimit(C39_NoSweep(i - 1), answers[i].info[2],
                                     answers[i].addr, answers[i].kind)
            IN /\ (answers[i].resp = "ok") = rc.allowed
               /\ (answers[i].resp = "RateLimited") = ~rc.allowed
               /\ answers[i].info[1] = rc.retryAfter)
    /\ [][(nreq' = nreq /\ rateLimits' # rateLimits) =>
          /\ DOMAIN rateLimits' \subseteq DOMAIN rateLimits
          /\ \A k \in DOMAIN rateLimits :
                IF now - rateLimits[k].windowStart > 2 * RATE_LIMIT_WINDOW_MS
                THEN k \notin DOMAIN rateLimits'
                ELSE k \in DOMAIN rateLimits' /\ rateLimits'[k] = rateLimits[k]]_vars

\* The entry of (a, create), full, and the entry of (b, claim) were swept
\* more than two window widths after they were made, and a later check of
\* (a, create) was accepted into a new window; the table without sweeps
\* still holds the old entry of (b, claim).
C39_Witness ==
    /\ Len(answers) = 4
    /\ \A i \in 1..2 : answers[i].kind = "create" /\ answers[i].resp = "ok"
                       /\ toLowerCase(answers[i].addr) = "a"
    /\ answers[3].kind = "claim" /\ answers[3].resp = "ok"
    /\ answers[4].kind = "create" /\ answers[4].resp = "ok"
    /\ toLowerCase(answers[4].addr) = "a"
    /\ answers[4].info[2] - answers[1].info[2] > 2 * RATE_LIMIT_WINDOW_MS
    /\ DOMAIN rateLimits = {<<"a", "create">>}
    /\ rateLimits[<<"a", "create">>] = [count |-> 1, windowStart |-> now]
    /\ <<"b", "claim">> \in DOMAIN C39_NoSweep(4)

\* ----------------------------------------------------------------- C33
\* C33: once a claim by identity B has been answered with success (B is
\* the stored claimant and no claim request of B on the bounty is still in
\* flight), the stored claimant stays B until a release by B or a reject is
\* applied: a step that replaces or clears B is the write of a release
\* request of B or of a reject request on that bounty.
C33_ClaimExclusive ==
    [][\A id \in DOMAIN bounties :
          LET B == bounties[id].claimedBy IN
          (/\ B # Null
           /\ \A s \in DOMAIN req :
                 ~(req[s].kind = "claim" /\ req[s].bid = id
                   /\ toLowerCase(req[s].addr) = B)
           /\ bounties'[id].claimedBy # B) =>
             \E s \in DOMAIN req :
                LET r == IF SUPABASE_KEY THEN req[s] ELSE req'[s] IN
                /\ r.kind \in {"release", "reject"}
                /\ r.bid = id
                /\ r.pc = "write"
                /\ r.kind = "release" => toLowerCase(r.addr) = B
                /\ IF SUPABASE_KEY THEN req'[s].pc = "done" ELSE req[s].pc = "done"]_vars

\* ----------------------------------------------------------------- C34
\* C34: with no reject and no release among the requests, whatever the
\* order and interleaving of the claim, submit and approve requests on a
\* bounty (two approve requests in flight at once, a submit by the claimant
\* after the approval), the payment executor transfers at most once for it.
C34_OnePayment ==
    \A bid \in DOMAIN bounties :
       Cardinality({i \in 1..Len(transfers) : transfers[i].bid = bid}) <= 1

\* ----------------------------------------------------------------- C35
\* The submissions a stored bounty accounts for, by their ids: the live
\* ones and the ones kept in its reject and release audit records.
C35_Recorded(b) ==
    {b.submissions[i].id : i \in 1..Len(b.submissions)}
    \cup UNION {{b.rejections[j].previousSubmissions[i].id :
                    i \in 1..Len(b.rejections[j].previousSubmissions)} :
                j \in 1..Len(b.rejections)}
    \cup UNION {{b.releases[j].submissions[i].id :
                    i \in 1..Len(b.releases[j].submissions)} :
                j \in 1..Len(b.releases)}

\* C35: no accepted submission is silently lost.  A submission is stored
\* when its submit request is answered with success; from then on it stays
\* among the bounty's live submissions or in one of its reject or release
\* audit records, and the only step that takes a submission out of both is
\* the write of a deleteSubmission request on that bounty.
C35_NoSubmissionLost ==
    [][\A id \in DOMAIN bounties :
          C35_Recorded(bounties[id]) \ C35_Recorded(bounties'[id]) # {} =>
             \E s \in DOMAIN req :
                LET r == IF SUPABASE_KEY THEN req[s] ELSE req'[s] IN
                /\ r.kind = "delete"
                /\ r.bid = id
                /\ r.pc = "write"
                /\ IF SUPABASE_KEY THEN req'[s].pc = "done"
                                   ELSE req[s].pc = "done"]_vars

\* ----------------------------------------------------------------- C36
\* C36: read-your-writes under remote failure.  With the remote store
\* configured, an update whose remote write fails is still answered with
\* the updated bounty, which is kept in memory; and the read of that bounty
\* that follows, in the same process and with no other request answered in
\* between, returns that updated state, not the older remote one.
C36_ReadYourWrites ==
    /\ [][\A s \in DOMAIN req :
            (/\ req[s].pc = "write" /\ req'[s].pc = "done"
             /\ req[s].kind # "claim"
             /\ bounties'[req[s].bid] # req[s].snap) =>
               /\ Last(answers').resp = "ok"
               /\ Last(answers').kind = req[s].kind
               /\ Last(answers').info[1] = req[s].snap.status
               /\ Last(answers').info[2] = req[s].snap.claimedBy
               /\ bountiesMemory'[req[s].bid] = req[s].snap]_vars
    /\ [][(/\ answers' # answers
           /\ Last(answers').kind = "get"
           /\ Len(answers) > 0
           /\ Last(answers).kind # "get"
           /\ Last(answers).resp = "ok"
           /\ Len(Last(answers).info) = 3
           /\ Last(answers).info[3] = "DB ERROR"
           /\ Last(answers).bid = Last(answers').bid) =>
             /\ Last(answers').resp = "ok"
             /\ Last(answers').info =
                   <<Last(answers).info[1], Last(answers).info[2]>>]_vars

\* ----------------------------------------------------------------- C37
\* C37: identity updates are written through.  With the remote store
\* configured every agent held in the agents map, with its reputation,
\* completedBounties and totalEarned, is the row the remote store has for
\* it, so that the load() of a restarted process restores the agents map as
\* it was, the counters updated at a completion included.
C37_WrittenThrough ==
    /\ [](SUPABASE_KEY =>
            \A a \in DOMAIN agents :
               a \in DOMAIN agentRows /\ agentRows[a] = agents[a])
    /\ [][(/\ SUPABASE_KEY
           /\ \A s \in DOMAIN req : req'[s] = Idle
           /\ rateLimits' = EmptyMap
           /\ agents' = agentRows
           /\ UNCHANGED <<bounties, answers, nreq, agentRows>>) =>
             agents' = agents]_vars

====
